---- MODULE Spec2Model ----
(***************************************************************************)
(* VibeTrail (src/src/extension.ts): snapshots of a workspace kept in a    *)
(* private "shadow" git repository, with restore and repair.               *)
(*                                                                         *)
(* A directory tree is a function from file paths to contents; a path is a *)
(* sequence of entry names.  A directory exists where a file lies below    *)
(* it (git tracks no empty directory).  The store's metadata subtree is    *)
(* the path .git/HEAD of the shadow tree; what git keeps inside it (the    *)
(* commits) is the variable commits.                                       *)
(***************************************************************************)
EXTENDS Integers, Sequences, FiniteSets, TLC

(***************************************************************************)
(* Bounds of the model.                                                    *)
(***************************************************************************)
MaxEdits == 1
MaxCommits == 3
MaxFaults == 1
MaxLines == 5
MaxPrompt == 7
MaxFiles == 2
MaxHidden == 1
MaxLog == 3
MaxCommands == 6
MaxClock == 2
MaxPathLen == 12

(***************************************************************************)
(* Entry names are strings; Spell gives the characters of a name, so that  *)
(* String.prototype.includes is computed on characters.                    *)
(***************************************************************************)
Spell ==
    [ s \in {"node_modules", ".git", ".gitignore", ".gitattributes", ".gitmodules",
             ".vscode", "out", "dist", "build", ".DS_Store", "Thumbs.db", "venv",
             "env", ".venv", ".env", "a.txt", "src", "layout", "HEAD",
             ".vibetrail", "root_L3Jvb3Q_", "src_L3Jvb3Qvc3Jj"} |->
      CASE s = "node_modules"   -> <<"n","o","d","e","_","m","o","d","u","l","e","s">>
        [] s = ".git"           -> <<".","g","i","t">>
        [] s = ".gitignore"     -> <<".","g","i","t","i","g","n","o","r","e">>
        [] s = ".gitattributes" -> <<".","g","i","t","a","t","t","r","i","b","u","t","e","s">>
        [] s = ".gitmodules"    -> <<".","g","i","t","m","o","d","u","l","e","s">>
        [] s = ".vscode"        -> <<".","v","s","c","o","d","e">>
        [] s = "out"            -> <<"o","u","t">>
        [] s = "dist"           -> <<"d","i","s","t">>
        [] s = "build"          -> <<"b","u","i","l","d">>
        [] s = ".DS_Store"      -> <<".","D","S","_","S","t","o","r","e">>
        [] s = "Thumbs.db"      -> <<"T","h","u","m","b","s",".","d","b">>
        [] s = "venv"           -> <<"v","e","n","v">>
        [] s = "env"            -> <<"e","n","v">>
        [] s = ".venv"          -> <<".","v","e","n","v">>
        [] s = ".env"           -> <<".","e","n","v">>
        [] s = "a.txt"          -> <<"a",".","t","x","t">>
        [] s = "src"            -> <<"s","r","c">>
        [] s = "layout"         -> <<"l","a","y","o","u","t">>
        [] s = "HEAD"           -> <<"H","E","A","D">>
        [] s = ".vibetrail"     -> <<".","v","i","b","e","t","r","a","i","l">>
        [] s = "root_L3Jvb3Q_"  -> <<"r","o","o","t","_","L","3","J","v","b","3","Q","_">>
        [] s = "src_L3Jvb3Qvc3Jj" ->
               <<"s","r","c","_","L","3","J","v","b","3","Q","v","c","3","J","j">> ]

\* String.prototype.includes: t occurs in s as a run of consecutive characters.
StringIncludes(s, t) ==
    \E i \in 0..(Len(Spell[s]) - Len(Spell[t])) :
        SubSeq(Spell[s], i + 1, i + Len(Spell[t])) = Spell[t]

\* Array.prototype.includes: some element of the array equals x.
ArrayIncludes(arr, x) == \E i \in DOMAIN arr : arr[i] = x

\* The ignore list of copyWorkspaceFiles.
ignorePatterns ==
    <<"node_modules", ".git", ".gitignore", ".gitattributes", ".gitmodules",
      ".vscode", "out", "dist", "build", ".DS_Store", "Thumbs.db", "venv",
      "env", ".venv", ".env">>

\* The ignore list of copyWorkspaceToShadowRepo.
syncIgnorePatterns ==
    <<"node_modules", ".git", ".gitignore", ".gitattributes", ".gitmodules",
      ".vscode", "out", "dist", "build", ".DS_Store", "Thumbs.db", "venv",
      "env", ".venv", ".env">>

\* The ignore list of cleanWorkspace.
cleanIgnorePatterns ==
    <<"node_modules", ".git", ".gitignore", ".gitattributes", ".gitmodules",
      ".vscode", "out", "dist", "build", ".DS_Store", "Thumbs.db", "venv",
      "env", ".venv", ".env">>

(***************************************************************************)
(* Trees.                                                                  *)
(***************************************************************************)
GitHead == <<".git", "HEAD">>

\* The file paths of the model: plain files, files below an ignored
\* directory (out), below a directory whose name only contains a rule
\* (layout), an ignored file (.env), a nested ignored directory, .git, and
\* the .git of a repository nested in the project.
Paths ==
    { <<"a.txt">>, <<".env">>, <<"layout", "a.txt">>, <<"out", "a.txt">>,
      <<"src", "out", "a.txt">>, GitHead, <<"src", ".git", "HEAD">> }

NoFile == "absent"
Contents == {"v1", "v2"}
\* The content of .git/HEAD in the shadow repository: a readable repository,
\* or one whose metadata is damaged (status fails).
RepoOk == "repo"
RepoCorrupt == "corrupt"

EmptyTree == [p \in Paths |-> NoFile]

Present(t) == {p \in Paths : t[p] # NoFile}

IsUnder(dir, p) == Len(dir) < Len(p) /\ SubSeq(p, 1, Len(dir)) = dir

basename(p) == p[Len(p)]

\* fs.existsSync, fs.statSync(..).isDirectory() and fs.readdirSync on a tree.
existsSync(t, p) == \E q \in Present(t) : q = p \/ IsUnder(p, q)
isDirectory(t, p) == \E q \in Present(t) : IsUnder(p, q)
readdirSync(t, dir) == {q[Len(dir) + 1] : q \in {r \in Present(t) : IsUnder(dir, r)}}

\* The tree without its .git entry, and the files that differ between two trees.
NoGit(t) == [p \in Paths |-> IF p[1] = ".git" THEN NoFile ELSE t[p]]
diffSummary(a, b) == {p \in Paths : NoGit(a)[p] # NoGit(b)[p]}

(***************************************************************************)
(* copyWorkspaceFiles: the mirror of a capture.                            *)
(***************************************************************************)
\* The names for which copyRecursive's tests hold:
\* ignorePatterns.includes(dirName), and
\* ignorePatterns.some(pattern => fileName.includes(pattern)).
SkippedDirNames == {n \in DOMAIN Spell : ArrayIncludes(ignorePatterns, n)}
SkippedFileNames ==
    {n \in DOMAIN Spell : \E i \in DOMAIN ignorePatterns : StringIncludes(n, ignorePatterns[i])}

\* A copyRecursive that tests file names only and prunes no directory.
copyRecursive_filesOnly(t, src) ==
    {p \in Present(t) : (p = src \/ IsUnder(src, p)) /\ basename(p) \notin SkippedFileNames}

\* copyRecursive of copyWorkspaceFiles: the files below src that are copied.
RECURSIVE copyRecursive(_, _)
copyRecursive(t, src) ==
    IF isDirectory(t, src)
    THEN IF basename(src) \in SkippedDirNames
         THEN {}
         ELSE UNION {copyRecursive(t, Append(src, file)) : file \in readdirSync(t, src)}
    ELSE IF basename(src) \in SkippedFileNames
         THEN {}
         ELSE {src}

\* A cleanup that removes nothing.
CleanDestination_none(destination, failRemove) == destination

\* A cleanup without the test item !== '.git'.
CleanDestination_all(destination, failRemove) ==
    [p \in Paths |-> IF p[1] \notin failRemove THEN NoFile ELSE destination[p]]

\* The cleanup loop of copyWorkspaceFiles: every top-level entry of the
\* destination but .git is removed; a removal that throws (the entries in
\* failRemove) is logged and the entry stays.
CleanDestination(destination, failRemove) ==
    [p \in Paths |->
        IF p[1] # ".git" /\ p[1] \notin failRemove THEN NoFile ELSE destination[p]]

\* The copy loop of copyWorkspaceFiles: the files it would copy.
WorkspaceFilesCopied(source) ==
    UNION {copyRecursive(source, <<file>>) : file \in readdirSync(source, <<>>)}

\* The order in which a depth-first walk with sorted directory listings
\* meets the files, and the files of a set met before the file at.
PathOrder ==
    << <<".env">>, GitHead, <<"a.txt">>, <<"layout", "a.txt">>, <<"out", "a.txt">>,
       <<"src", ".git", "HEAD">>, <<"src", "out", "a.txt">> >>
Rank(p) == CHOOSE i \in DOMAIN PathOrder : PathOrder[i] = p
CopiedBefore(files, at) == {q \in files : Rank(q) < Rank(at)}

\* The destination after its cleanup and the copy of the files in done.
CopyInto(source, cleaned, done) ==
    [p \in Paths |-> IF p \in done THEN source[p] ELSE cleaned[p]]

\* A copyWorkspaceFiles whose cleanup stops at the first removal that throws.
copyWorkspaceFiles_abortOnRemove(source, destination, failRemove, copyFails, at) ==
    IF ~existsSync(destination, <<".git">>)
    THEN [error |-> "Git directory not found", dest |-> destination]
    ELSE IF destination[GitHead] # RepoOk
    THEN [error |-> "not accessible", dest |-> destination]
    ELSE IF failRemove # {}
    THEN [error |-> "remove", dest |-> destination]
    ELSE [error |-> "none",
          dest |-> CopyInto(source, CleanDestination(destination, {}),
                            WorkspaceFilesCopied(source))]

\* copyWorkspaceFiles(source, destination).  failRemove: the entries whose
\* removal throws; copyFails with at: fs.copyFileSync throws at the file at,
\* after the files before it were copied.  The result is the outcome and the
\* destination.
copyWorkspaceFiles(source, destination, failRemove, copyFails, at) ==
    IF ~existsSync(destination, <<".git">>)
    THEN [error |-> "Git directory not found", dest |-> destination]
    ELSE IF destination[GitHead] # RepoOk
    THEN [error |-> "not accessible", dest |-> destination]
    ELSE LET cleaned == CleanDestination(destination, failRemove)
         IN  IF copyFails
             THEN [error |-> "copy",
                   dest |-> CopyInto(source, cleaned,
                                     CopiedBefore(WorkspaceFilesCopied(source), at))]
             ELSE [error |-> "none",
                   dest |-> CopyInto(source, cleaned, WorkspaceFilesCopied(source))]

(***************************************************************************)
(* The shadow repository's git (simple-git) as the handlers use it.        *)
(***************************************************************************)
\* git.log(): the commits, oldest first here (git lists them newest first).
\* A commit is [hash, tree, restoredFrom]; restoredFrom is 0 for a snapshot
\* of saveSnapshot and the restored hash for a commit of synchronizeShadowRepo.
HeadTree(cs) == IF cs = <<>> THEN EmptyTree ELSE cs[Len(cs)].tree

Hashes(cs) == {cs[i].hash : i \in DOMAIN cs}

TreeOf(cs, h) == cs[CHOOSE i \in DOMAIN cs : cs[i].hash = h].tree

\* git.add('.'): the index becomes the working tree (without .git).
GitAdd(tree) == NoGit(tree)

\* git.commit(message): a new commit of the staged tree, appended to the
\* history, unless the staged tree equals the head's (nothing to commit).
NothingToCommit(cs, staged) == staged = HeadTree(cs)

\* A commit that rewrites the head commit (git commit --amend).
GitCommit_amend(cs, staged, h, from) ==
    IF NothingToCommit(cs, staged)
    THEN cs
    ELSE IF cs = <<>>
    THEN <<[hash |-> h, tree |-> staged, restoredFrom |-> from]>>
    ELSE [cs EXCEPT ![Len(cs)] = [hash |-> h, tree |-> staged, restoredFrom |-> from]]

\* A commit that is made also when nothing is staged (git commit --allow-empty).
GitCommit_allowEmpty(cs, staged, h, from) ==
    Append(cs, [hash |-> h, tree |-> staged, restoredFrom |-> from])

GitCommit(cs, staged, h, from) ==
    IF NothingToCommit(cs, staged)
    THEN cs
    ELSE Append(cs, [hash |-> h, tree |-> staged, restoredFrom |-> from])

\* git.status() succeeds: the metadata subtree is there and readable.
StatusOk(repo) == repo[GitHead] = RepoOk

\* git.clean('f', ['-d']): the files that are not in the index are removed.
GitClean(repo, idx) ==
    [p \in Paths |-> IF p[1] = ".git" \/ idx[p] # NoFile THEN repo[p] ELSE NoFile]

\* git.reset(['--hard', 'HEAD']): index and tracked files become the head's;
\* the files that were neither staged nor in the head stay.
GitResetHard(repo, idx, cs) ==
    [p \in Paths |->
        IF p[1] = ".git" THEN repo[p]
        ELSE IF HeadTree(cs)[p] # NoFile \/ idx[p] # NoFile THEN HeadTree(cs)[p]
        ELSE repo[p]]

\* A recovery that is not attempted.
ResetAndClean_skipped(repo, idx, cs) == [repo |-> repo, index |-> idx]

\* git.reset(['--hard', 'HEAD']) then git.clean('f', ['-d']) as one try block
\* (restoreSnapshot's recovery): reset throws without metadata or without a
\* commit, and then clean is not run.
ResetAndClean(repo, idx, cs) ==
    IF StatusOk(repo) /\ cs # <<>>
    THEN [repo |-> GitClean(GitResetHard(repo, idx, cs), HeadTree(cs)), index |-> HeadTree(cs)]
    ELSE [repo |-> repo, index |-> idx]

\* validateRepositoryHealth(): .git exists and git.status() succeeds.
validateRepositoryHealth(repo) == existsSync(repo, <<".git">>) /\ StatusOk(repo)

(***************************************************************************)
(* State.                                                                  *)
(***************************************************************************)
VARIABLES
    workspace,    \* the workspace folder's tree
    shadowRepo,   \* the tree at shadowRepoPath, .git included
    rootExists,   \* the directory shadowRepoPath exists
    commits,      \* the history kept in shadowRepoPath/.git
    index,        \* the tree staged in shadowRepoPath/.git
    nextHash,     \* the hash the next commit gets
    tempPath,     \* the temporary directory of a restore: whether it exists, its tree
    pc,           \* "idle", or "cloned": a restore has cloned and checked out
    restoreHash,  \* the hash a restore in progress restores
    edits,        \* edits of the workspace made so far
    faults,       \* faults met so far: errors of the file system or of git
                  \* injected into a handler, and outside changes of the store
    last,         \* the last step: the operation, how it ended, what it logged
    diffFile,     \* an entry of a diff summary (change analysis)
    fileDetail,   \* the FileChangeDetail derived from it
    openPaths,    \* the workspace paths of two windows (project identity)
    repoPaths,    \* the shadowRepoPath each of the two computed
    prompt,       \* the text the input box of a capture returned
    commitMessage,\* the commit message built from it
    parsedPrompt, \* the prompt the timeline parsed from the message
    diffCall,     \* a call of git.diffSummary in getCommitHistory: whether there
                  \* is an older snapshot, and what the call returned
    commitInfo,   \* the change statistics getCommitHistory derived from it
    isInitialized,  \* the module's flag of the lazy initialisation
    gitSet,         \* the module's git handle is assigned
    pathSet,        \* the module's shadowRepoPath is assigned
    folderOpen,     \* the window has a workspace folder
    storeState,     \* the store directory: "missing", "empty" or "repo"
    initError,      \* the call at which the last initialisation failed
    commandsRun,    \* how many commands and reloads the window has had
    clock,          \* Date.now(), in milliseconds
    restorePc,      \* where each restoreSnapshot invocation of the timeline is
    restoreTemp,    \* the tempPath of each invocation: its Date.now() suffix
    restoreResult,  \* how each invocation ended last
    tempDirs,       \* the directories vibetrail-restore-<n> of os.tmpdir()
    fsDirs,         \* the directories below the home directory /root
    fsFiles,        \* the files below the home directory
    mirrorPc,       \* a step-by-step mirror: "idle", "copying", "done", "error"
    mirrorStack,    \* the copyRecursive calls it has still to make, first first
    mirrorSteps,    \* the copyRecursive calls it has made
    startEntries,   \* the entries of the workspace tree when it began
    gitLog,       \* a history of the store, as git.log reads it (timeline)
    timeline,     \* the list getCommitHistory returned for it
    diffFailures  \* the snapshots whose diffSummary threw in that run

vars == <<workspace, shadowRepo, rootExists, commits, index, nextHash, tempPath, pc,
          restoreHash, edits, faults, last, diffFile, fileDetail, openPaths, repoPaths,
          prompt, commitMessage, parsedPrompt, diffCall, commitInfo, gitLog,
          timeline, diffFailures, isInitialized, gitSet, pathSet, folderOpen,
          storeState, initError, commandsRun, clock, restorePc, restoreTemp,
          restoreResult, tempDirs, fsDirs, fsFiles, mirrorPc, mirrorStack,
          mirrorSteps, startEntries>>

engineVars == <<workspace, shadowRepo, rootExists, commits, index, nextHash, tempPath, pc,
                restoreHash, edits, faults, last>>

analysisVars == <<diffFile, fileDetail>>

identityVars == <<openPaths, repoPaths>>

promptVars == <<prompt, commitMessage, parsedPrompt>>

\* The state of the parts that the engine, the change analysis and the
\* project identity leave alone.
totalsVars == <<diffCall, commitInfo>>

timelineVars == <<gitLog, timeline, diffFailures>>

initVars == <<isInitialized, gitSet, pathSet, folderOpen, storeState, initError,
             commandsRun>>
overlapVars == <<clock, restorePc, restoreTemp, restoreResult, tempDirs>>
mirrorVars == <<fsDirs, fsFiles, mirrorPc, mirrorStack, mirrorSteps, startEntries>>
moreVars == <<initVars, overlapVars, mirrorVars>>
otherVars == <<promptVars, totalsVars, timelineVars, moreVars>>

\* The restoreSnapshot invocations that the timeline has running at a time,
\* and the tempPath of an invocation that has not computed one.
Invocations == {1, 2}
NoName == -1

\* The stores of the workspaces /root and /root/src, as paths below the home
\* directory /root: ~/.vibetrail/<workspaceName>_<workspaceHash>.
MirrorWorkspaces == {<<>>, <<"src">>}
StoreOf(w) ==
    IF w = <<>> THEN <<".vibetrail", "root_L3Jvb3Q_">>
    ELSE <<".vibetrail", "src_L3Jvb3Qvc3Jj">>

\* The directories of the home directory once both stores are initialised.
HomeDirs ==
    {<<>>, <<"src">>, <<".vibetrail">>}
    \cup {StoreOf(w) : w \in MirrorWorkspaces}
    \cup {StoreOf(w) \o <<".git">> : w \in MirrorWorkspaces}

NoTemp == [exists |-> FALSE, tree |-> EmptyTree]

\* What the last step was: the operation, how it ended, whether the cleanup
\* of a mirror into the store logged a removal that failed, what the user
\* answered to the confirmation of a restore, and the error it showed.
Step(op, outcome) ==
    [op |-> op, outcome |-> outcome, warned |-> FALSE, answer |-> "-", error |-> "-"]
StepWarned(op, outcome, warned) ==
    [op |-> op, outcome |-> outcome, warned |-> warned, answer |-> "-", error |-> "-"]
StepAnswered(op, outcome, answer) ==
    [op |-> op, outcome |-> outcome, warned |-> FALSE, answer |-> answer, error |-> "-"]
\* A step that ended with an error message: error is the call whose error
\* the message shows.
StepFailed(op, outcome, answer, error) ==
    [op |-> op, outcome |-> outcome, warned |-> FALSE, answer |-> answer, error |-> error]

NoDiffFile == [file |-> "-"]
\* No result of git.diffSummary: none was asked for, or the call threw.
NoDiffResult == [files |-> <<>>, insertions |-> 0, deletions |-> 0]
NoDiffCall == [previousCommit |-> FALSE, throws |-> FALSE, result |-> NoDiffResult, read |-> FALSE]
NoInfo == [filesChanged |-> 0, linesAdded |-> 0, linesRemoved |-> 0, fileDetails |-> <<"-">>]
\* No text yet: a text is a sequence of symbols, and "?" is none of them.
NoText == <<"?">>
NoDetail == [filename |-> "-", linesAdded |-> 0, linesRemoved |-> 0, status |-> "-"]

\* No window is open; no shadowRepoPath is computed.
NoPaths == <<>>

\* A project as the user has it when the extension starts: a source file, an
\* environment file, build output at two depths, the project's own .git and
\* the .git of a nested repository.
ProjectTree ==
    [p \in Paths |->
        IF p \in {<<"a.txt">>, <<".env">>, <<"out", "a.txt">>, <<"src", "out", "a.txt">>,
                  GitHead, <<"src", ".git", "HEAD">>}
        THEN "v1" ELSE NoFile]

\* After activation and the first ensureInitialized: the shadow repository
\* exists, is initialized and has no commit; the workspace holds the project.
InitEngine ==
    /\ workspace = ProjectTree
    /\ shadowRepo = [EmptyTree EXCEPT ![GitHead] = RepoOk]
    /\ rootExists = TRUE
    /\ commits = <<>>
    /\ index = EmptyTree
    /\ nextHash = 1
    /\ tempPath = NoTemp
    /\ pc = "idle"
    /\ restoreHash = 0
    /\ edits = 0
    /\ faults = 0
    /\ last = Step("init", "-")

Init ==
    /\ InitEngine
    /\ diffFile = NoDiffFile
    /\ fileDetail = NoDetail
    /\ openPaths = NoPaths
    /\ repoPaths = NoPaths
    /\ prompt = NoText
    /\ commitMessage = NoText
    /\ parsedPrompt = NoText
    /\ diffCall = NoDiffCall
    /\ commitInfo = NoInfo
    /\ gitLog = <<>>
    /\ timeline = <<>>
    /\ isInitialized = FALSE
    /\ gitSet = FALSE
    /\ pathSet = FALSE
    /\ folderOpen = TRUE
    /\ storeState = "missing"
    /\ initError = "none"
    /\ commandsRun = 0
    /\ clock = 0
    /\ restorePc = [i \in Invocations |-> "idle"]
    /\ restoreTemp = [i \in Invocations |-> NoName]
    /\ restoreResult = [i \in Invocations |-> "-"]
    /\ tempDirs = [n \in 0..MaxClock |-> "absent"]
    /\ fsDirs = HomeDirs
    /\ fsFiles = {<<"src", "a.txt">>}
    /\ mirrorPc = "idle"
    /\ mirrorStack = <<>>
    /\ mirrorSteps = 0
    /\ startEntries = 0
    /\ diffFailures = {}

(***************************************************************************)
(* The user edits the workspace: creates, rewrites or deletes one file.    *)
(* The commands and the edits of one user take turns with a restore.       *)
(***************************************************************************)
Edit ==
    /\ edits < MaxEdits
    /\ pc = "idle"
    /\ \E p \in Paths, c \in Contents \cup {NoFile} :
        /\ workspace[p] # c
        /\ workspace' = [workspace EXCEPT ![p] = c]
    /\ edits' = edits + 1
    /\ last' = Step("edit", "-")
    /\ UNCHANGED <<shadowRepo, rootExists, commits, index, nextHash, tempPath, pc,
                   restoreHash, faults, analysisVars, identityVars, otherVars>>

(***************************************************************************)
(* saveSnapshot.                                                           *)
(***************************************************************************)
TopEntries(t) == readdirSync(t, <<>>)

\* The faults a mirror into dest can meet: one removal that throws, or a
\* copy that throws after some of the files were copied.
NoFault == [kind |-> "none", entry |-> "-", at |-> <<>>]
CommitFault == [kind |-> "commit", entry |-> "-", at |-> <<>>]
RemoveFaults(kind, entries) == {[kind |-> kind, entry |-> e, at |-> <<>>] : e \in entries}
CopyFaults(kind, files) == {[kind |-> kind, entry |-> "-", at |-> p] : p \in files}

FailRemove(f) == IF f.kind = "remove" THEN {f.entry} ELSE {}

\* A saveSnapshot that stages and commits also after a mirror that threw
\* (the copy in a try of its own, whose error is only logged).
saveSnapshot_commitAfterError(proceed, promptGiven, f) ==
    LET healthy == validateRepositoryHealth(shadowRepo)
        mirror == copyWorkspaceFiles(workspace, shadowRepo, FailRemove(f),
                                     f.kind = "copy", f.at)
    IN  IF (~healthy /\ ~proceed) \/ ~promptGiven
        THEN /\ last' = Step("capture", "cancelled")
             /\ UNCHANGED <<shadowRepo, commits, index, nextHash>>
        ELSE /\ shadowRepo' = mirror.dest
             /\ index' = GitAdd(mirror.dest)
             /\ commits' = GitCommit(commits, GitAdd(mirror.dest), nextHash, 0)
             /\ nextHash' = IF commits' = commits THEN nextHash ELSE nextHash + 1
             /\ last' = StepWarned("capture",
                                   IF mirror.error # "none" THEN "mirrorError"
                                   ELSE IF commits' = commits THEN "nothing" ELSE "saved",
                                   f.kind = "remove")

\* A saveSnapshot that mirrors the workspace before it asks.
saveSnapshot_mirrorFirst(proceed, promptGiven, f) ==
    LET healthy == validateRepositoryHealth(shadowRepo)
    IN  IF (~healthy /\ ~proceed) \/ ~promptGiven
        THEN /\ last' = Step("capture", "cancelled")
             /\ shadowRepo' = CopyInto(workspace, CleanDestination(shadowRepo, {}),
                                       WorkspaceFilesCopied(workspace))
             /\ UNCHANGED <<commits, index, nextHash>>
        ELSE /\ shadowRepo' = shadowRepo
             /\ last' = Step("capture", "mirrorError")
             /\ UNCHANGED <<commits, index, nextHash>>

\* saveSnapshot(): proceed is the answer to the health warning, promptGiven is
\* FALSE when the input box is cancelled, f is the injected fault.
saveSnapshot(proceed, promptGiven, f) ==
    LET healthy == validateRepositoryHealth(shadowRepo)
        mirror == copyWorkspaceFiles(workspace, shadowRepo, FailRemove(f),
                                     f.kind = "copy", f.at)
    IN  IF (~healthy /\ ~proceed) \/ ~promptGiven
        THEN /\ last' = Step("capture", "cancelled")
             /\ UNCHANGED <<shadowRepo, commits, index, nextHash>>
        ELSE IF mirror.error # "none"
        THEN /\ shadowRepo' = mirror.dest
             /\ last' = StepWarned("capture", "mirrorError", f.kind = "remove")
             /\ UNCHANGED <<commits, index, nextHash>>
        ELSE IF f.kind = "commit"
        THEN /\ shadowRepo' = mirror.dest
             /\ index' = GitAdd(mirror.dest)
             /\ last' = StepWarned("capture", "commitError", f.kind = "remove")
             /\ UNCHANGED <<commits, nextHash>>
        ELSE /\ shadowRepo' = mirror.dest
             /\ index' = GitAdd(mirror.dest)
             /\ commits' = GitCommit(commits, GitAdd(mirror.dest), nextHash, 0)
             /\ nextHash' = IF commits' = commits THEN nextHash ELSE nextHash + 1
             /\ last' = StepWarned("capture",
                                   IF commits' = commits THEN "nothing" ELSE "saved",
                                   f.kind = "remove")

\* A capture whose cleanup runs on the source of the mirror.
SaveSnapshot_cleansSource ==
    /\ pc = "idle"
    /\ nextHash <= MaxCommits
    /\ \E proceed \in BOOLEAN, promptGiven \in BOOLEAN,
          f \in {NoFault, CommitFault}
                 \cup RemoveFaults("remove", TopEntries(shadowRepo) \ {".git"})
                 \cup CopyFaults("copy", WorkspaceFilesCopied(workspace)) :
        /\ f # NoFault => faults < MaxFaults
        \* an input that the run does not read takes one value
        /\ validateRepositoryHealth(shadowRepo) => proceed
        /\ ~proceed => promptGiven
        /\ (~promptGiven \/ ~proceed \/ ~validateRepositoryHealth(shadowRepo)) => f = NoFault
        /\ faults' = IF f = NoFault THEN faults ELSE faults + 1
        /\ saveSnapshot(proceed, promptGiven, f)
    /\ workspace' = CleanDestination(workspace, {})
    /\ UNCHANGED <<rootExists, tempPath, pc, restoreHash, edits, analysisVars, identityVars, otherVars>>

SaveSnapshot ==
    /\ pc = "idle"
    /\ nextHash <= MaxCommits
    /\ \E proceed \in BOOLEAN, promptGiven \in BOOLEAN,
          f \in {NoFault, CommitFault}
                 \cup RemoveFaults("remove", TopEntries(shadowRepo) \ {".git"})
                 \cup CopyFaults("copy", WorkspaceFilesCopied(workspace)) :
        /\ f # NoFault => faults < MaxFaults
        \* an input that the run does not read takes one value
        /\ validateRepositoryHealth(shadowRepo) => proceed
        /\ ~proceed => promptGiven
        /\ (~promptGiven \/ ~proceed \/ ~validateRepositoryHealth(shadowRepo)) => f = NoFault
        /\ faults' = IF f = NoFault THEN faults ELSE faults + 1
        /\ saveSnapshot(proceed, promptGiven, f)
    /\ UNCHANGED <<workspace, rootExists, tempPath, pc, restoreHash, edits, analysisVars, identityVars, otherVars>>

(***************************************************************************)
(* restoreSnapshot.  The handler awaits git child processes (clone,        *)
(* checkout) before it touches the workspace, so the user's edits and      *)
(* outside changes of the store can fall between its two parts below.      *)
(* Other commands wait for the restore to end (a single user, spec 5).     *)
(***************************************************************************)
\* shouldIgnore of cleanWorkspace: the names for which it holds.
KeptItemNames ==
    {n \in DOMAIN Spell :
        \E i \in DOMAIN cleanIgnorePatterns : StringIncludes(n, cleanIgnorePatterns[i])}
shouldIgnore(itemName) == itemName \in KeptItemNames

\* cleanWorkspace: every top-level item that is not ignored is removed with
\* all below it; a removal that throws (failRemove) is logged and skipped.
cleanWorkspace(ws, failRemove) ==
    [p \in Paths |->
        IF shouldIgnore(p[1]) \/ p[1] \in failRemove THEN ws[p] ELSE NoFile]

\* copyRecursive of copySnapshotToWorkspace: every file below src.
RECURSIVE snapshotCopyRecursive(_, _)
snapshotCopyRecursive(t, src) ==
    IF isDirectory(t, src)
    THEN UNION {snapshotCopyRecursive(t, Append(src, item)) : item \in readdirSync(t, src)}
    ELSE {src}

\* A copy of the clone that does not leave out its .git.
SnapshotFilesCopied_withGit(snapshot) == Present(snapshot)

\* The files copySnapshotToWorkspace copies: all of the clone but its .git.
SnapshotFilesCopied(snapshot) ==
    UNION {snapshotCopyRecursive(snapshot, <<item>>) :
              item \in {x \in readdirSync(snapshot, <<>>) : x # ".git"}}

\* copySnapshotToWorkspace(snapshotPath, workspacePath).
copySnapshotToWorkspace(snapshot, ws, copyFails, at) ==
    IF copyFails
    THEN [error |-> "copy",
          dest |-> CopyInto(snapshot, ws, CopiedBefore(SnapshotFilesCopied(snapshot), at))]
    ELSE [error |-> "none", dest |-> CopyInto(snapshot, ws, SnapshotFilesCopied(snapshot))]

\* The names for which the tests of copyWorkspaceToShadowRepo's copyRecursive hold.
SyncSkippedDirNames == {n \in DOMAIN Spell : ArrayIncludes(syncIgnorePatterns, n)}
SyncSkippedFileNames ==
    {n \in DOMAIN Spell :
        \E i \in DOMAIN syncIgnorePatterns : StringIncludes(n, syncIgnorePatterns[i])}

\* copyRecursive of copyWorkspaceToShadowRepo.
RECURSIVE syncCopyRecursive(_, _)
syncCopyRecursive(t, src) ==
    IF isDirectory(t, src)
    THEN IF basename(src) \in SyncSkippedDirNames
         THEN {}
         ELSE UNION {syncCopyRecursive(t, Append(src, item)) : item \in readdirSync(t, src)}
    ELSE IF basename(src) \in SyncSkippedFileNames
         THEN {}
         ELSE {src}

\* The files copyWorkspaceToShadowRepo copies.
ShadowFilesCopied(ws) ==
    UNION {syncCopyRecursive(ws, <<item>>) :
              item \in {x \in readdirSync(ws, <<>>) : x # ".git"}}

\* Step 2 of synchronizeShadowRepo: every top-level item of the shadow
\* repository but .git is removed; a removal that throws is logged.
CleanShadowRepo(repo, failRemove) ==
    [p \in Paths |->
        IF p[1] # ".git" /\ p[1] \notin failRemove THEN NoFile ELSE repo[p]]

\* synchronizeShadowRepo(workspacePath, restoredCommitHash): the shadow tree,
\* the commits and how the resync ended.  Every error is caught inside.
synchronizeShadowRepo(ws, repo, exists, cs, idx, h, restored, f) ==
    LET cleaned == CleanShadowRepo(repo, IF f.kind = "syncRemove" THEN {f.entry} ELSE {})
        files == ShadowFilesCopied(ws)
        copied == CopyInto(ws, cleaned, files)
    IN  IF ~exists
        THEN [repo |-> repo, commits |-> cs, index |-> idx, sync |-> "mirrorFailed"]
        ELSE IF f.kind = "syncCopy"
        THEN [repo |-> CopyInto(ws, cleaned, CopiedBefore(files, f.at)),
              commits |-> cs, index |-> idx, sync |-> "mirrorFailed"]
        ELSE IF ~StatusOk(copied)
        THEN [repo |-> copied, commits |-> cs, index |-> idx, sync |-> "gitFailed"]
        ELSE IF f.kind = "commit"
        THEN [repo |-> copied, commits |-> cs, index |-> GitAdd(copied), sync |-> "gitFailed"]
        ELSE [repo |-> copied,
              commits |-> GitCommit(cs, GitAdd(copied), h, restored),
              index |-> GitAdd(copied),
              sync |-> IF NothingToCommit(cs, GitAdd(copied)) THEN "nothing" ELSE "committed"]

\* tempGit.clone(shadowRepoPath, tempPath) and checkout(hash) can succeed.
\* A clone reads the objects and refs of .git: of a store whose status fails
\* it succeeds when the damage is elsewhere (cloneReads).
CanClone(repo, cloneReads) == StatusOk(repo) \/ (repo[GitHead] = RepoCorrupt /\ cloneReads)
CanCheckout(cs, hash) == hash \in Hashes(cs)

\* The call of the first part of a restore that throws: the one the fault is
\* injected into, or the clone of a store that cannot be read, or else the
\* checkout of a hash that the store does not have.
RestoreError(fault, repo, cloneReads) ==
    IF fault # "none" THEN fault
    ELSE IF ~CanClone(repo, cloneReads) THEN "clone"
    ELSE "checkout"

\* A confirmation that only 'No' declines.
Confirmed_notNo(result) == result # "No"

\* result !== 'Yes' returns: the answers with which a restore goes on.
Confirmed(result) == result = "Yes"

\* A removal of the temporary directory that leaves it there.
RemoveTemp_keep(temp) == temp

\* fs.rmSync(tempPath, { recursive: true }).
RemoveTemp(temp) == NoTemp

\* A first part that cleans the workspace before it clones.
restoreBegin_cleanFirst(answer, hash, fault, cloneReads) ==
    IF ~Confirmed(answer)
    THEN /\ last' = StepAnswered("restoreBegin", "declined", answer)
         /\ UNCHANGED <<workspace, shadowRepo, index, tempPath, pc, restoreHash>>
    ELSE IF fault = "none" /\ CanClone(shadowRepo, cloneReads) /\ CanCheckout(commits, hash)
    THEN /\ tempPath' = [exists |-> TRUE,
                         tree |-> [TreeOf(commits, hash) EXCEPT ![GitHead] = RepoOk]]
         /\ pc' = "cloned"
         /\ restoreHash' = hash
         /\ last' = StepAnswered("restoreBegin", "cloned", answer)
         /\ UNCHANGED <<workspace, shadowRepo, index>>
    ELSE /\ workspace' = cleanWorkspace(workspace, {})
         /\ tempPath' = IF fault = "mkdir" THEN tempPath
                        ELSE RemoveTemp([exists |-> TRUE, tree |-> EmptyTree])
         /\ shadowRepo' = ResetAndClean(shadowRepo, index, commits).repo
         /\ index' = ResetAndClean(shadowRepo, index, commits).index
         /\ last' = StepFailed("restoreBegin", "failed", answer,
                               RestoreError(fault, shadowRepo, cloneReads))
         /\ UNCHANGED <<pc, restoreHash>>

\* A first part that checks the target out in the shadow repository itself.
restoreBegin_checkoutInStore(answer, hash, fault, cloneReads) ==
    IF ~Confirmed(answer)
    THEN /\ last' = StepAnswered("restoreBegin", "declined", answer)
         /\ UNCHANGED <<workspace, shadowRepo, index, tempPath, pc, restoreHash>>
    ELSE IF fault = "none" /\ CanClone(shadowRepo, cloneReads) /\ CanCheckout(commits, hash)
    THEN /\ tempPath' = [exists |-> TRUE,
                         tree |-> [TreeOf(commits, hash) EXCEPT ![GitHead] = RepoOk]]
         /\ shadowRepo' = [TreeOf(commits, hash) EXCEPT ![GitHead] = shadowRepo[GitHead]]
         /\ index' = TreeOf(commits, hash)
         /\ pc' = "cloned"
         /\ restoreHash' = hash
         /\ last' = StepAnswered("restoreBegin", "cloned", answer)
         /\ UNCHANGED workspace
    ELSE /\ tempPath' = IF fault = "mkdir" THEN tempPath
                        ELSE RemoveTemp([exists |-> TRUE, tree |-> EmptyTree])
         /\ shadowRepo' = ResetAndClean(shadowRepo, index, commits).repo
         /\ index' = ResetAndClean(shadowRepo, index, commits).index
         /\ last' = StepFailed("restoreBegin", "failed", answer,
                               RestoreError(fault, shadowRepo, cloneReads))
         /\ UNCHANGED <<workspace, pc, restoreHash>>

\* The first part of restoreSnapshot(hash): the confirmation, the temporary
\* directory, the clone and the checkout; on an error, the catch block
\* removes the temporary directory if it was made and tries the recovery.
restoreBegin(answer, hash, fault, cloneReads) ==
    IF ~Confirmed(answer)
    THEN /\ last' = StepAnswered("restoreBegin", "declined", answer)
         /\ UNCHANGED <<workspace, shadowRepo, index, tempPath, pc, restoreHash>>
    ELSE IF fault = "none" /\ CanClone(shadowRepo, cloneReads) /\ CanCheckout(commits, hash)
    THEN /\ tempPath' = [exists |-> TRUE,
                         tree |-> [TreeOf(commits, hash) EXCEPT ![GitHead] = RepoOk]]
         /\ pc' = "cloned"
         /\ restoreHash' = hash
         /\ last' = StepAnswered("restoreBegin", "cloned", answer)
         /\ UNCHANGED <<workspace, shadowRepo, index>>
    ELSE /\ tempPath' = IF fault = "mkdir" THEN tempPath
                        ELSE RemoveTemp([exists |-> TRUE, tree |-> EmptyTree])
         /\ shadowRepo' = ResetAndClean(shadowRepo, index, commits).repo
         /\ index' = ResetAndClean(shadowRepo, index, commits).index
         /\ last' = StepFailed("restoreBegin", "failed", answer,
                               RestoreError(fault, shadowRepo, cloneReads))
         /\ UNCHANGED <<workspace, pc, restoreHash>>

\* The command to restore a snapshot of the timeline.
RestoreBegin ==
    /\ pc = "idle"
    /\ nextHash <= MaxCommits
    /\ \E answer \in {"Yes", "No", "dismissed"}, hash \in 1..(nextHash - 1),
          fault \in {"none", "mkdir", "clone", "checkout"}, cloneReads \in BOOLEAN :
        \* an input that the run does not read takes one value
        /\ answer # "Yes" => fault = "none" /\ hash = 1
        /\ (shadowRepo[GitHead] # RepoCorrupt \/ answer # "Yes") => ~cloneReads
        \* a failure of the first part leaves nothing of its own behind: it is
        \* not counted, so that it can follow a fault of another operation
        /\ faults' = faults
        /\ restoreBegin(answer, hash, fault, cloneReads)
    /\ UNCHANGED <<rootExists, commits, nextHash, edits, analysisVars, identityVars, otherVars>>

\* A second part in which an error of the resynchronisation is thrown on:
\* the catch block runs the recovery and the restore ends with that error.
restoreFinish_syncFatal(f) ==
    LET cleanedWs == cleanWorkspace(workspace, IF f.kind = "wsRemove" THEN {f.entry} ELSE {})
        copy == copySnapshotToWorkspace(tempPath.tree, cleanedWs, f.kind = "wsCopy", f.at)
        sync == synchronizeShadowRepo(copy.dest, shadowRepo, rootExists, commits, index,
                                      nextHash, restoreHash, f)
    IN  IF copy.error # "none"
        THEN /\ workspace' = copy.dest
             /\ shadowRepo' = ResetAndClean(shadowRepo, index, commits).repo
             /\ index' = ResetAndClean(shadowRepo, index, commits).index
             /\ last' = StepFailed("restore", "copyFailed", "-", "copy")
             /\ UNCHANGED <<commits, nextHash>>
        ELSE IF sync.sync \in {"mirrorFailed", "gitFailed"}
        THEN /\ workspace' = copy.dest
             /\ shadowRepo' = ResetAndClean(sync.repo, sync.index, commits).repo
             /\ index' = ResetAndClean(sync.repo, sync.index, commits).index
             /\ last' = StepFailed("restore", sync.sync, "-", "sync")
             /\ UNCHANGED <<commits, nextHash>>
        ELSE /\ workspace' = copy.dest
             /\ shadowRepo' = sync.repo
             /\ commits' = sync.commits
             /\ index' = sync.index
             /\ nextHash' = IF sync.commits = commits THEN nextHash ELSE nextHash + 1
             /\ last' = StepWarned("restore", sync.sync, rootExists /\ f.kind = "syncRemove")

\* The second part of restoreSnapshot(hash): cleanWorkspace,
\* copySnapshotToWorkspace, synchronizeShadowRepo, removal of the temporary
\* directory; on an error, the recovery of the catch block.
restoreFinish(f) ==
    LET cleanedWs == cleanWorkspace(workspace, IF f.kind = "wsRemove" THEN {f.entry} ELSE {})
        copy == copySnapshotToWorkspace(tempPath.tree, cleanedWs, f.kind = "wsCopy", f.at)
        sync == synchronizeShadowRepo(copy.dest, shadowRepo, rootExists, commits, index,
                                      nextHash, restoreHash, f)
    IN  IF copy.error # "none"
        THEN /\ workspace' = copy.dest
             /\ shadowRepo' = ResetAndClean(shadowRepo, index, commits).repo
             /\ index' = ResetAndClean(shadowRepo, index, commits).index
             /\ last' = StepFailed("restore", "copyFailed", "-", "copy")
             /\ UNCHANGED <<commits, nextHash>>
        ELSE /\ workspace' = copy.dest
             /\ shadowRepo' = sync.repo
             /\ commits' = sync.commits
             /\ index' = sync.index
             /\ nextHash' = IF sync.commits = commits THEN nextHash ELSE nextHash + 1
             /\ last' = StepWarned("restore", sync.sync, rootExists /\ f.kind = "syncRemove")

RestoreFinish ==
    /\ pc = "cloned"
    /\ \E f \in {NoFault, CommitFault}
                 \cup RemoveFaults("wsRemove", {e \in TopEntries(workspace) : ~shouldIgnore(e)})
                 \cup CopyFaults("wsCopy", SnapshotFilesCopied(tempPath.tree))
                 \cup RemoveFaults("syncRemove", TopEntries(shadowRepo) \ {".git"})
                 \cup CopyFaults("syncCopy", Paths) :
        /\ f.kind = "syncCopy" =>
              f.at \in ShadowFilesCopied(
                          copySnapshotToWorkspace(tempPath.tree, cleanWorkspace(workspace, {}),
                                                  FALSE, <<>>).dest)
        /\ f # NoFault => faults < MaxFaults
        /\ faults' = IF f = NoFault THEN faults ELSE faults + 1
        /\ restoreFinish(f)
    /\ tempPath' = RemoveTemp(tempPath)
    /\ pc' = "idle"
    /\ restoreHash' = 0
    /\ UNCHANGED <<rootExists, edits, analysisVars, identityVars, otherVars>>

(***************************************************************************)
(* repairGitRepository and initializeShadowRepo.                           *)
(***************************************************************************)
\* initializeShadowRepo() on a store without .git: the root directory is
\* created, checkIsRepo answers false and git.init() runs; an error of init
\* is caught inside and only shown.
initializeShadowRepo(repo, initThrows) ==
    IF initThrows THEN repo ELSE [repo EXCEPT ![GitHead] = RepoOk]

\* A re-initialisation that empties the store directory first.
ReinitializeInPlace_wipe(repo) == [EmptyTree EXCEPT ![GitHead] = RepoOk]

\* The branch of repairGitRepository for a missing .git: git.init() in place.
ReinitializeInPlace(repo) == [repo EXCEPT ![GitHead] = RepoOk]

\* repairGitRepository().  initFailsAt: which of its git.init() calls throw
\* (first, second); initFixes: git.init() makes damaged metadata readable;
\* isRepo: what checkIsRepo does on damaged metadata ("true", "false",
\* "throws").  The result: the store and what the function returns.
repairGitRepository(repo, exists, cs, idx, initFailsAt, initFixes, isRepo) ==
    LET lastResort(r, n) ==
            [repo |-> initializeShadowRepo([r EXCEPT ![GitHead] = NoFile], n \in initFailsAt),
             exists |-> TRUE, commits |-> <<>>, index |-> EmptyTree,
             result |-> TRUE, path |-> "lastResort"]
    IN  IF ~exists
        THEN [repo |-> initializeShadowRepo(repo, 1 \in initFailsAt), exists |-> TRUE,
              commits |-> <<>>, index |-> EmptyTree, result |-> TRUE, path |-> "noRoot"]
        ELSE IF ~existsSync(repo, <<".git">>)
        THEN IF 1 \in initFailsAt
             THEN lastResort(repo, 2)
             ELSE [repo |-> ReinitializeInPlace(repo), exists |-> TRUE,
                   commits |-> <<>>, index |-> EmptyTree, result |-> TRUE, path |-> "noGit"]
        ELSE IF ~StatusOk(repo) /\ 1 \in initFailsAt
        THEN [repo |-> repo, exists |-> TRUE, commits |-> cs, index |-> idx,
              result |-> FALSE, path |-> "reinitFailed"]
        ELSE LET inits == IF StatusOk(repo) THEN 0 ELSE 1
                 r1 == IF ~StatusOk(repo) /\ initFixes
                       THEN [repo EXCEPT ![GitHead] = RepoOk] ELSE repo
                 \* log and reset: only with a commit; any error is caught.
                 r2 == IF StatusOk(r1) /\ cs # <<>> THEN GitResetHard(r1, idx, cs) ELSE r1
                 i2 == IF StatusOk(r1) /\ cs # <<>> THEN HeadTree(cs) ELSE idx
                 \* clean: any error is caught.
                 r3 == IF StatusOk(r2) THEN GitClean(r2, i2) ELSE r2
             IN  IF StatusOk(r3)
                 THEN [repo |-> r3, exists |-> TRUE, commits |-> cs, index |-> i2,
                       result |-> TRUE, path |-> "verified"]
                 ELSE IF isRepo = "throws"
                 THEN lastResort(r3, inits + 1)
                 ELSE [repo |-> r3, exists |-> TRUE, commits |-> cs, index |-> i2,
                       result |-> FALSE,
                       path |-> IF isRepo = "false" THEN "notARepo" ELSE "statusFailed"]

\* A repair whose reset and clean run in the workspace folder: the files of
\* the workspace that the head snapshot does not have are removed.
RepairRepositoryWithin_inWorkspace(budget) ==
    /\ pc = "idle"
    /\ \E initFailsAt \in SUBSET {1, 2}, initFixes \in BOOLEAN,
          isRepo \in {"true", "false", "throws"} :
        LET r == repairGitRepository(shadowRepo, rootExists, commits, index,
                                     initFailsAt, initFixes, isRepo)
        IN  /\ initFailsAt # {} => faults < budget
            /\ faults' = IF initFailsAt = {} THEN faults ELSE faults + 1
            \* an input that the run does not read takes one value
            /\ validateRepositoryHealth(shadowRepo) => initFailsAt = {}
            /\ shadowRepo[GitHead] # RepoCorrupt => ~initFixes /\ isRepo = "true"
            /\ shadowRepo' = r.repo
            /\ rootExists' = r.exists
            /\ commits' = r.commits
            /\ index' = r.index
            /\ workspace' = GitClean(workspace, HeadTree(commits))
            /\ last' = Step("repair", r.path)
    /\ UNCHANGED <<nextHash, tempPath, pc, restoreHash, edits, analysisVars, identityVars, otherVars>>

\* The command vibetrail.repairRepository, confirmed by the user; a git.init
\* of the run may throw while fewer than budget faults were met.
RepairRepositoryWithin(budget) ==
    /\ pc = "idle"
    /\ \E initFailsAt \in SUBSET {1, 2}, initFixes \in BOOLEAN,
          isRepo \in {"true", "false", "throws"} :
        LET r == repairGitRepository(shadowRepo, rootExists, commits, index,
                                     initFailsAt, initFixes, isRepo)
        IN  /\ initFailsAt # {} => faults < budget
            /\ faults' = IF initFailsAt = {} THEN faults ELSE faults + 1
            \* an input that the run does not read takes one value
            /\ validateRepositoryHealth(shadowRepo) => initFailsAt = {}
            /\ shadowRepo[GitHead] # RepoCorrupt => ~initFixes /\ isRepo = "true"
            /\ shadowRepo' = r.repo
            /\ rootExists' = r.exists
            /\ commits' = r.commits
            /\ index' = r.index
            /\ last' = Step("repair", r.path)
    /\ UNCHANGED <<workspace, nextHash, tempPath, pc, restoreHash, edits, analysisVars, identityVars, otherVars>>

RepairRepository == RepairRepositoryWithin(MaxFaults)

\* The same command on a store that was damaged from outside: the git.init
\* of the repair may throw after the damage, one fault beyond the others.
RepairDamagedRepository == RepairRepositoryWithin(MaxFaults + 1)


(***************************************************************************)
(* Changes of the store from outside the extension.                        *)
(***************************************************************************)
\* The metadata subtree .git is deleted.
ExternalDeleteGit ==
    /\ faults < MaxFaults
    /\ existsSync(shadowRepo, <<".git">>)
    /\ shadowRepo' = [shadowRepo EXCEPT ![GitHead] = NoFile]
    /\ commits' = <<>>
    /\ index' = EmptyTree
    /\ faults' = faults + 1
    /\ last' = Step("deleteGit", "-")
    /\ UNCHANGED <<workspace, rootExists, nextHash, tempPath, pc, restoreHash, edits,
                   analysisVars, identityVars, otherVars>>

\* The metadata is damaged: git.status() fails from now on.
ExternalCorruptGit ==
    /\ faults < MaxFaults
    /\ StatusOk(shadowRepo)
    /\ shadowRepo' = [shadowRepo EXCEPT ![GitHead] = RepoCorrupt]
    /\ faults' = faults + 1
    /\ last' = Step("corruptGit", "-")
    /\ UNCHANGED <<workspace, rootExists, commits, index, nextHash, tempPath, pc,
                   restoreHash, edits, analysisVars, identityVars, otherVars>>

\* The whole directory shadowRepoPath is deleted.
ExternalDeleteRoot ==
    /\ faults < MaxFaults
    /\ rootExists
    /\ shadowRepo' = EmptyTree
    /\ rootExists' = FALSE
    /\ commits' = <<>>
    /\ index' = EmptyTree
    /\ faults' = faults + 1
    /\ last' = Step("deleteRoot", "-")
    /\ UNCHANGED <<workspace, nextHash, tempPath, pc, restoreHash, edits, analysisVars, identityVars, otherVars>>

(***************************************************************************)
(* The views: the timeline's history, the diff views and the file system   *)
(* provider of the scheme vibetrail.  The hashes a view is asked for come  *)
(* from a timeline rendered earlier, so they can be gone from the store.   *)
(***************************************************************************)
\* git.show(['--format=', hash]) and git.diffSummary can answer: the commit
\* is in the history and the objects can be read (of a store whose status
\* fails, when the damage is elsewhere).
CanShow(repo, cs, hash, reads) == hash \in Hashes(cs) /\ CanClone(repo, reads)

\* The inputs of a run of repairGitRepository on the store: which git.init
\* throw, and on damaged metadata what git.init and checkIsRepo do.
RepairInputs(repo) ==
    IF repo[GitHead] = RepoCorrupt
    THEN [initFailsAt : SUBSET {1, 2}, initFixes : BOOLEAN, isRepo : {"true", "false", "throws"}]
    ELSE [initFailsAt : SUBSET {1, 2}, initFixes : {FALSE}, isRepo : {"true"}]

\* What git.checkIsRepo() can do on the store: true on a healthy store,
\* false without .git; with damaged metadata, or without the directory, it
\* can also throw.
CheckIsRepo(repo, exists) ==
    IF ~exists THEN {"false", "throws"}
    ELSE IF ~existsSync(repo, <<".git">>) THEN {"false"}
    ELSE IF StatusOk(repo) THEN {"true"}
    ELSE {"true", "false", "throws"}

\* The store after a view that leaves it alone, and after a repair.
StoreKept(outcome, answer) ==
    [repo |-> shadowRepo, exists |-> rootExists, commits |-> commits, index |-> index,
     outcome |-> outcome, answer |-> answer]
StoreRepaired(r, answer) ==
    [repo |-> r.repo, exists |-> r.exists, commits |-> r.commits, index |-> r.index,
     outcome |-> r.path, answer |-> answer]

\* getCommitHistory(): the health check, git.log(); every error is caught and
\* gives an empty history.  How it ended.
getCommitHistory(repo, cs, logThrows) ==
    IF ~validateRepositoryHealth(repo) THEN "unhealthy"
    ELSE IF logThrows THEN "logFailed"
    ELSE IF cs = <<>> THEN "empty"
    ELSE "listed"

\* viewFileDiff(filePath, currentHash, previousHash).  thrown: a call of the
\* try block throws (the command that registers the provider, checkIsRepo,
\* vscode.diff); isRepo: what checkIsRepo answers; reads: git.show can read
\* damaged metadata; answer: the user's answer to the offer of a repair, and
\* rep the inputs of that repair.  The result: the store and how it ended.
viewFileDiff(filePath, currentHash, previousHash, thrown, isRepo, reads, answer, rep) ==
    IF thrown
    THEN IF answer = "Repair Repository"
         THEN StoreRepaired(repairGitRepository(shadowRepo, rootExists, commits, index,
                                                rep.initFailsAt, rep.initFixes, rep.isRepo),
                            answer)
         ELSE StoreKept("failed", answer)
    ELSE IF isRepo = "false" THEN StoreKept("notValid", "-")
    ELSE IF ~CanShow(shadowRepo, commits, currentHash, reads)
    THEN StoreKept("currentNotFound", "-")
    ELSE IF ~CanShow(shadowRepo, commits, previousHash, reads)
    THEN StoreKept("previousNotFound", "-")
    ELSE IF /\ TreeOf(commits, currentHash)[filePath] = NoFile
            /\ TreeOf(commits, previousHash)[filePath] = NoFile
    THEN StoreKept("fileNotFound", "-")
    ELSE StoreKept("shown", "-")

\* No file is picked in the quick pick.
NoPick == <<>>

\* viewDiff(currentHash, previousHash).  diffThrows: git.diffSummary throws
\* on a store it could read; pick: the file chosen in the quick pick; the
\* other inputs are viewFileDiff's.  An error of diffSummary runs
\* repairGitRepository at once.
viewDiff(currentHash, previousHash, diffThrows, pick, thrown, isRepo, reads, answer, rep) ==
    IF \/ diffThrows
       \/ ~CanShow(shadowRepo, commits, currentHash, reads)
       \/ ~CanShow(shadowRepo, commits, previousHash, reads)
    THEN StoreRepaired(repairGitRepository(shadowRepo, rootExists, commits, index,
                                           rep.initFailsAt, rep.initFixes, rep.isRepo),
                       "-")
    ELSE LET changedFiles ==
                 diffSummary(TreeOf(commits, previousHash), TreeOf(commits, currentHash))
         IN  IF changedFiles = {} THEN StoreKept("noChanges", "-")
             ELSE IF Cardinality(changedFiles) = 1
             THEN viewFileDiff(CHOOSE file \in changedFiles : TRUE, currentHash, previousHash,
                               thrown, isRepo, reads, answer, rep)
             ELSE IF pick \in changedFiles
             THEN viewFileDiff(pick, currentHash, previousHash,
                               thrown, isRepo, reads, answer, rep)
             ELSE StoreKept("noFileSelected", "-")

\* readFile(uri) and stat(uri) of GitSnapshotFileSystemProvider: how they end.
\* They call checkIsRepo and git.show only.
readFile(commitHash, filePath, isRepo, reads) ==
    IF isRepo = "throws" THEN "fileNotFound"
    ELSE IF isRepo = "false" THEN "unavailable"
    ELSE IF ~CanShow(shadowRepo, commits, commitHash, reads) THEN "fileNotFound"
    ELSE IF TreeOf(commits, commitHash)[filePath] = NoFile THEN "emptyContent"
    ELSE "content"

\* The injected faults of a run of a view: a call that throws on a store
\* that is healthy, and a git.init of the repair that throws.
ViewFaults(thrown, rep, repaired) ==
    (IF thrown /\ validateRepositoryHealth(shadowRepo) THEN 1 ELSE 0)
    + (IF repaired /\ rep.initFailsAt # {} THEN 1 ELSE 0)

\* The timeline is shown or refreshed.
GetCommitHistory ==
    /\ pc = "idle"
    /\ \E logThrows \in BOOLEAN :
        /\ logThrows => faults < MaxFaults /\ validateRepositoryHealth(shadowRepo)
        /\ faults' = IF logThrows THEN faults + 1 ELSE faults
        /\ last' = Step("history", getCommitHistory(shadowRepo, commits, logThrows))
    /\ UNCHANGED <<workspace, shadowRepo, rootExists, commits, index, nextHash, tempPath, pc,
                   restoreHash, edits, analysisVars, identityVars, otherVars>>

\* What a rendered timeline can hold: the hashes of the commits made so far
\* and the files a mirror copies.  Its button for the changes of a commit
\* passes the commit and the one before it; a file of a commit passes them
\* too, and the commit twice when it is the oldest.
TimelineHashes == 1..(nextHash - 1)
TimelineFiles == WorkspaceFilesCopied([p \in Paths |-> "v1"])
PreviousOf(currentHash) == {h \in TimelineHashes : h = currentHash - 1}
PreviousOrSame(currentHash) == {h \in TimelineHashes : h \in {currentHash - 1, currentHash}}

\* The inputs a run reads: an input that the run does not read takes one
\* value.  git.show reads damaged metadata or not; a call of viewFileDiff's
\* try block throws when checkIsRepo does, and on a healthy store by a fault.
ReadsOf(repo) == IF repo[GitHead] = RepoCorrupt THEN BOOLEAN ELSE {FALSE}
ThrownWith(isRepo) ==
    IF isRepo = "throws" THEN {TRUE}
    ELSE IF validateRepositoryHealth(shadowRepo) THEN BOOLEAN
    ELSE {FALSE}
AnswersTo(thrown) == IF thrown THEN {"Repair Repository", "Cancel"} ELSE {"Cancel"}
NoRepair == [initFailsAt |-> {}, initFixes |-> FALSE, isRepo |-> "true"]
RepairInputsIf(repaired) == IF repaired THEN RepairInputs(shadowRepo) ELSE {NoRepair}

\* The timeline's button "view diff" between two snapshots.
ViewDiff ==
    /\ pc = "idle"
    /\ \E currentHash \in TimelineHashes, reads \in ReadsOf(shadowRepo) :
        \E previousHash \in PreviousOf(currentHash) :
        LET readable == /\ CanShow(shadowRepo, commits, currentHash, reads)
                        /\ CanShow(shadowRepo, commits, previousHash, reads)
            changedFiles == IF readable
                            THEN diffSummary(TreeOf(commits, previousHash),
                                             TreeOf(commits, currentHash))
                            ELSE {}
        IN  \E diffThrows \in IF readable THEN BOOLEAN ELSE {FALSE} :
            \E pick \in IF ~diffThrows /\ Cardinality(changedFiles) > 1
                        THEN changedFiles \cup {NoPick} ELSE {NoPick} :
            LET fileViewed == /\ ~diffThrows
                              /\ \/ Cardinality(changedFiles) = 1
                                 \/ pick # NoPick
            IN  \E isRepo \in IF fileViewed THEN CheckIsRepo(shadowRepo, rootExists)
                              ELSE {"true"} :
                \E thrown \in IF fileViewed THEN ThrownWith(isRepo) ELSE {FALSE} :
                \E answer \in AnswersTo(thrown) :
                LET repaired == \/ diffThrows
                                \/ ~readable
                                \/ thrown /\ answer = "Repair Repository"
                IN  \E rep \in RepairInputsIf(repaired) :
                    LET r == viewDiff(currentHash, previousHash, diffThrows, pick, thrown,
                                      isRepo, reads, answer, rep)
                        n == ViewFaults(thrown \/ diffThrows, rep, repaired)
                    IN  /\ faults + n <= MaxFaults
                        /\ faults' = faults + n
                        /\ shadowRepo' = r.repo
                        /\ rootExists' = r.exists
                        /\ commits' = r.commits
                        /\ index' = r.index
                        /\ last' = StepAnswered("viewDiff", r.outcome, r.answer)
    /\ UNCHANGED <<workspace, nextHash, tempPath, pc, restoreHash, edits, analysisVars, identityVars, otherVars>>

\* A file of a snapshot is clicked in the timeline.
ViewFileDiff ==
    /\ pc = "idle"
    /\ \E currentHash \in TimelineHashes, reads \in ReadsOf(shadowRepo),
          isRepo \in CheckIsRepo(shadowRepo, rootExists) :
        \E previousHash \in PreviousOrSame(currentHash) :
        \E thrown \in ThrownWith(isRepo) :
        \E answer \in AnswersTo(thrown) :
        \E rep \in RepairInputsIf(thrown /\ answer = "Repair Repository") :
        \E filePath \in IF /\ ~thrown
                           /\ isRepo = "true"
                           /\ CanShow(shadowRepo, commits, currentHash, reads)
                           /\ CanShow(shadowRepo, commits, previousHash, reads)
                        THEN TimelineFiles ELSE {<<"a.txt">>} :
            LET r == viewFileDiff(filePath, currentHash, previousHash, thrown, isRepo,
                                  reads, answer, rep)
                n == ViewFaults(thrown, rep, thrown /\ answer = "Repair Repository")
            IN  /\ faults + n <= MaxFaults
                /\ faults' = faults + n
                /\ shadowRepo' = r.repo
                /\ rootExists' = r.exists
                /\ commits' = r.commits
                /\ index' = r.index
                /\ last' = StepAnswered("viewFileDiff", r.outcome, r.answer)
    /\ UNCHANGED <<workspace, nextHash, tempPath, pc, restoreHash, edits, analysisVars, identityVars, otherVars>>

\* The diff editor reads a file of a snapshot through the provider.
ReadSnapshotFile ==
    /\ pc = "idle"
    /\ \E commitHash \in TimelineHashes, reads \in ReadsOf(shadowRepo),
          isRepo \in CheckIsRepo(shadowRepo, rootExists) :
        \E filePath \in IF isRepo = "true" /\ CanShow(shadowRepo, commits, commitHash, reads)
                        THEN TimelineFiles ELSE {<<"a.txt">>} :
            last' = Step("readFile", readFile(commitHash, filePath, isRepo, reads))
    /\ UNCHANGED <<workspace, shadowRepo, rootExists, commits, index, nextHash, tempPath, pc,
                   restoreHash, edits, faults, analysisVars, identityVars, otherVars>>

(***************************************************************************)
(* Change analysis (getCommitHistory): the FileChangeDetail of one entry   *)
(* of git.diffSummary.  An entry of a binary file has no line counts.      *)
(***************************************************************************)
\* The entries git.diffSummary can hold, up to MaxLines lines per count: a
\* text file's entry has the counts, a binary file's has before and after.
DiffFiles ==
    [file : {"a.txt", "logo.png"}, insertions : 0..MaxLines, deletions : 0..MaxLines]
    \cup [file : {"a.txt", "logo.png"}, before : {0}, after : {0}]

\* 'insertions' in file ? file.insertions : 0, and the same for deletions.
InsertionsOf(file) == IF "insertions" \in DOMAIN file THEN file.insertions ELSE 0
DeletionsOf(file) == IF "deletions" \in DOMAIN file THEN file.deletions ELSE 0

\* A classification that calls every file with insertions added.
FileChangeDetail_added(file) ==
    LET insertions == InsertionsOf(file)
        deletions == DeletionsOf(file)
    IN  [filename |-> file.file,
         linesAdded |-> insertions,
         linesRemoved |-> deletions,
         status |-> IF insertions > 0 THEN "added"
                    ELSE IF deletions > 0 THEN "deleted"
                    ELSE "modified"]

\* The body of diffSummary.files.map(...).
FileChangeDetail(file) ==
    LET insertions == InsertionsOf(file)
        deletions == DeletionsOf(file)
    IN  [filename |-> file.file,
         linesAdded |-> insertions,
         linesRemoved |-> deletions,
         status |-> IF insertions > 0 /\ deletions = 0 THEN "added"
                    ELSE IF insertions = 0 /\ deletions > 0 THEN "deleted"
                    ELSE "modified"]

\* git.diffSummary returns an entry.
ReadDiffFile ==
    /\ diffFile' \in DiffFiles
    /\ fileDetail' = NoDetail
    /\ UNCHANGED <<engineVars, identityVars, otherVars>>

\* getCommitHistory derives the detail of the entry.
AnalyzeFile ==
    /\ diffFile # NoDiffFile
    /\ fileDetail' = FileChangeDetail(diffFile)
    /\ UNCHANGED <<diffFile, engineVars, identityVars, otherVars>>

(***************************************************************************)
(* Project identity (initializeShadowRepo): the shadowRepoPath computed    *)
(* from the workspace path.                                                *)
(***************************************************************************)
\* The absolute paths of the projects, as their segments.
WorkspacePaths ==
    {<<"home", "u", "work", c, n>> : c \in {"a", "b"}, n \in {"app", "web"}}
    \cup {<<"srv", c, n>> : c \in {"a", "b"}, n \in {"app", "web"}}

\* The characters of a segment, and the byte of a character (ASCII).
SegmentChars ==
    [ s \in {"home", "u", "work", "srv", "a", "b", "app", "web"} |->
      CASE s = "home" -> <<"h","o","m","e">>
        [] s = "u"    -> <<"u">>
        [] s = "work" -> <<"w","o","r","k">>
        [] s = "srv"  -> <<"s","r","v">>
        [] s = "a"    -> <<"a">>
        [] s = "b"    -> <<"b">>
        [] s = "app"  -> <<"a","p","p">>
        [] s = "web"  -> <<"w","e","b">> ]

CharCode ==
    [ c \in {"/", "a", "b", "e", "h", "k", "m", "o", "p", "r", "s", "u", "v", "w"} |->
      CASE c = "/" -> 47  [] c = "a" -> 97  [] c = "b" -> 98  [] c = "e" -> 101
        [] c = "h" -> 104 [] c = "k" -> 107 [] c = "m" -> 109 [] c = "o" -> 111
        [] c = "p" -> 112 [] c = "r" -> 114 [] c = "s" -> 115 [] c = "u" -> 117
        [] c = "v" -> 118 [] c = "w" -> 119 ]

\* workspaceFolder.uri.fsPath: the characters of the path.
RECURSIVE fsPath(_)
fsPath(segments) ==
    IF segments = <<>> THEN <<>>
    ELSE <<"/">> \o SegmentChars[Head(segments)] \o fsPath(Tail(segments))

\* Buffer.from(workspacePath): the bytes of the path.
BufferFrom(chars) == [i \in DOMAIN chars |-> CharCode[chars[i]]]

\* The letters of base64 are the numbers 0..63 of its alphabet ('+' is 62,
\* '/' is 63); '=' pads, and '_' is what the replace writes.
Base64Plus == 62
Base64Slash == 63
Base64Pad == 64
Underscore == 65

\* toString('base64'): three bytes give four letters; the last one or two
\* bytes give two or three letters and the padding.
RECURSIVE ToBase64(_)
ToBase64(bytes) ==
    IF Len(bytes) = 0 THEN <<>>
    ELSE IF Len(bytes) = 1
    THEN <<bytes[1] \div 4, (bytes[1] % 4) * 16, Base64Pad, Base64Pad>>
    ELSE IF Len(bytes) = 2
    THEN <<bytes[1] \div 4, (bytes[1] % 4) * 16 + bytes[2] \div 16,
           (bytes[2] % 16) * 4, Base64Pad>>
    ELSE <<bytes[1] \div 4, (bytes[1] % 4) * 16 + bytes[2] \div 16,
           (bytes[2] % 16) * 4 + bytes[3] \div 64, bytes[3] % 64>>
         \o ToBase64(SubSeq(bytes, 4, Len(bytes)))

\* .replace(/[/+=]/g, '_')
ReplaceUnsafe(letters) ==
    [i \in DOMAIN letters |->
        IF letters[i] \in {Base64Slash, Base64Plus, Base64Pad} THEN Underscore ELSE letters[i]]

\* .substring(0, 16)
HashLength == 16
Substring(letters) ==
    SubSeq(letters, 1, IF Len(letters) < HashLength THEN Len(letters) ELSE HashLength)

workspaceHash(segments) == Substring(ReplaceUnsafe(ToBase64(BufferFrom(fsPath(segments)))))

\* path.basename(workspacePath)
workspaceName(segments) == segments[Len(segments)]

\* path.join(homeDir, '.vibetrail', `${workspaceName}_${workspaceHash}`):
\* the name and the hash decide the directory.
shadowRepoPathOf(segments) ==
    [name |-> workspaceName(segments), hash |-> workspaceHash(segments)]

\* Two windows are opened on workspaces.
OpenWorkspaces ==
    /\ openPaths' \in WorkspacePaths \X WorkspacePaths
    /\ repoPaths' = NoPaths
    /\ UNCHANGED <<engineVars, analysisVars, otherVars>>

\* Each window runs initializeShadowRepo.
InitializeShadowRepos ==
    /\ openPaths # NoPaths
    /\ repoPaths' = <<shadowRepoPathOf(openPaths[1]), shadowRepoPathOf(openPaths[2])>>
    /\ UNCHANGED <<openPaths, engineVars, analysisVars, otherVars>>

(***************************************************************************)
(* The prompt of a capture: the commit message saveSnapshot builds from it *)
(* and the prompt getCommitHistory parses back.  A text is a sequence of   *)
(* symbols: the space, "|", "@", and the word Snapshot taken as one.       *)
(***************************************************************************)
Symbols == {" ", "|", "Snapshot", "@"}

\* The texts of at most n symbols.
Texts(n) == UNION {[1..k -> Symbols] : k \in 0..n}

\* new Date().toISOString(): a text without a space, "|" or "@".
Timestamp == <<"2024-01-01T00:00:00.000Z">>

\* ' | Snapshot @ '
Delimiter == <<" ", "|", " ", "Snapshot", " ", "@", " ">>

\* 'Snapshot @ '
SnapshotAt == <<"Snapshot", " ", "@", " ">>

\* String.prototype.trim.
RECURSIVE Trim(_)
Trim(s) ==
    IF s = <<>> THEN s
    ELSE IF s[1] = " " THEN Trim(Tail(s))
    ELSE IF s[Len(s)] = " " THEN Trim(SubSeq(s, 1, Len(s) - 1))
    ELSE s

\* String.prototype.indexOf, counted from 1; 0 when d does not occur in s.
IndexOf(s, d) ==
    LET at == {i \in 1..(Len(s) - Len(d) + 1) : SubSeq(s, i, i + Len(d) - 1) = d}
    IN  IF at = {} THEN 0 ELSE CHOOSE i \in at : \A j \in at : i <= j

\* String.prototype.includes on texts.
TextIncludes(s, d) == IndexOf(s, d) # 0

\* String.prototype.split with a separator: the pieces between its
\* occurrences, found from the left, one after the end of the other.
RECURSIVE Split(_, _)
Split(s, d) ==
    LET i == IndexOf(s, d)
    IN  IF i = 0 THEN <<s>>
        ELSE <<SubSeq(s, 1, i - 1)>> \o Split(SubSeq(s, i + Len(d), Len(s)), d)

\* The commit message of saveSnapshot.
BuildCommitMessage(p) ==
    IF p # <<>> /\ Trim(p) # <<>>
    THEN Trim(p) \o Delimiter \o Timestamp
    ELSE SnapshotAt \o Timestamp

\* The prompt getCommitHistory shows for a commit message.
ParsePrompt(message) ==
    LET messageParts == Split(message, Delimiter)
    IN  IF Len(messageParts) > 1 THEN messageParts[1] ELSE <<>>

\* The input box returns a text.
TypePrompt ==
    /\ prompt = NoText
    /\ prompt' \in Texts(MaxPrompt)
    /\ commitMessage' = NoText
    /\ parsedPrompt' = NoText
    /\ UNCHANGED <<engineVars, analysisVars, identityVars, totalsVars, timelineVars, moreVars>>

\* saveSnapshot builds the commit message.
BuildMessage ==
    /\ prompt # NoText
    /\ commitMessage = NoText
    /\ commitMessage' = BuildCommitMessage(prompt)
    /\ UNCHANGED <<prompt, parsedPrompt, engineVars, analysisVars, identityVars, totalsVars, timelineVars, moreVars>>

\* getCommitHistory parses the message of the commit.
ParseMessage ==
    /\ commitMessage # NoText
    /\ parsedPrompt = NoText
    /\ parsedPrompt' = ParsePrompt(commitMessage)
    /\ UNCHANGED <<prompt, commitMessage, engineVars, analysisVars, identityVars, totalsVars, timelineVars, moreVars>>

(***************************************************************************)
(* The change statistics of a snapshot (getCommitHistory).                 *)
(***************************************************************************)
\* The sum of the numbers of a sequence.
RECURSIVE SumSeq(_)
SumSeq(seq) == IF seq = <<>> THEN 0 ELSE Head(seq) + SumSeq(Tail(seq))

\* The sum of f over the elements of a sequence.
InsertionsIn(files) == SumSeq([i \in DOMAIN files |-> InsertionsOf(files[i])])
DeletionsIn(files) == SumSeq([i \in DOMAIN files |-> DeletionsOf(files[i])])

\* What git.diffSummary returns: the entries of the files, and the totals of
\* the summary line of git diff --stat.  simple-git takes the counts of an
\* entry from the + and - of the file's histogram, which git shortens when
\* the file has more changed lines than the histogram is wide: hidden is
\* the number of lines of the totals that the entries do not show, of a
\* kind of which they show some.
HiddenLines(shown) == IF shown > 0 THEN 0..MaxHidden ELSE {0}
DiffResult(files, hiddenInsertions, hiddenDeletions) ==
    [files |-> files,
     insertions |-> InsertionsIn(files) + hiddenInsertions,
     deletions |-> DeletionsIn(files) + hiddenDeletions]

\* The statistics of one snapshot in getCommitHistory: zero without an
\* older snapshot and after a diffSummary that threw.
ChangeStats(call) ==
    IF ~call.previousCommit \/ call.throws
    THEN [filesChanged |-> 0, linesAdded |-> 0, linesRemoved |-> 0, fileDetails |-> <<>>]
    ELSE [filesChanged |-> Len(call.result.files),
          linesAdded |-> call.result.insertions,
          linesRemoved |-> call.result.deletions,
          fileDetails |-> [i \in DOMAIN call.result.files |->
                              FileChangeDetail(call.result.files[i])]]

\* getCommitHistory reaches a snapshot: the first one, or one whose
\* diffSummary against the older one returns or throws.
ReadDiffSummary ==
    /\ diffCall = NoDiffCall
    /\ \/ diffCall' = [previousCommit |-> FALSE, throws |-> FALSE,
                        result |-> NoDiffResult, read |-> TRUE]
       \/ diffCall' = [previousCommit |-> TRUE, throws |-> TRUE,
                        result |-> NoDiffResult, read |-> TRUE]
       \/ \E k \in 0..MaxFiles :
            \E files \in [1..k -> DiffFiles] :
              \E hiddenInsertions \in HiddenLines(InsertionsIn(files)),
                 hiddenDeletions \in HiddenLines(DeletionsIn(files)) :
                diffCall' = [previousCommit |-> TRUE, throws |-> FALSE,
                             result |-> DiffResult(files, hiddenInsertions, hiddenDeletions),
                             read |-> TRUE]
    /\ commitInfo' = NoInfo
    /\ UNCHANGED <<engineVars, analysisVars, identityVars, promptVars, timelineVars, moreVars>>

\* getCommitHistory derives the statistics of the snapshot.
AnalyzeCommit ==
    /\ diffCall # NoDiffCall
    /\ commitInfo = NoInfo
    /\ commitInfo' = ChangeStats(diffCall)
    /\ UNCHANGED <<diffCall, engineVars, analysisVars, identityVars, promptVars, timelineVars, moreVars>>

(***************************************************************************)
(* The timeline (getCommitHistory): the list of the snapshots with the     *)
(* files each changed.  The line counts of an entry are in the change      *)
(* statistics above.                                                       *)
(***************************************************************************)
\* git.log().all: the commits, the most recent first.
LogAll(cs) == [i \in 1..Len(cs) |-> cs[Len(cs) - i + 1]]

\* An entry whose statistics are taken against the newer neighbour.
CommitInfoAt_newerNeighbour(all, i, diffFails) ==
    IF i > 1 /\ all[i].hash \notin diffFails
    THEN [hash |-> all[i].hash,
          filesChanged |-> Cardinality(diffSummary(all[i].tree, all[i - 1].tree)),
          files |-> diffSummary(all[i].tree, all[i - 1].tree)]
    ELSE [hash |-> all[i].hash, filesChanged |-> 0, files |-> {}]

\* The entry of log.all[i]: its statistics are those of the diffSummary
\* against log.all[i + 1]; without one, and after a diffSummary that threw,
\* they are zero.
CommitInfoAt(all, i, diffFails) ==
    IF i < Len(all) /\ all[i].hash \notin diffFails
    THEN [hash |-> all[i].hash,
          filesChanged |-> Cardinality(diffSummary(all[i + 1].tree, all[i].tree)),
          files |-> diffSummary(all[i + 1].tree, all[i].tree)]
    ELSE [hash |-> all[i].hash, filesChanged |-> 0, files |-> {}]

\* The list getCommitHistory returns.
CommitInfos(repo, cs, logThrows, diffFails) ==
    IF getCommitHistory(repo, cs, logThrows) # "listed"
    THEN <<>>
    ELSE [i \in 1..Len(cs) |-> CommitInfoAt(LogAll(cs), i, diffFails)]

\* The snapshots for which getCommitHistory calls git.diffSummary.
WithOlder(cs) == {cs[i].hash : i \in 2..Len(cs)}

\* The trees of the snapshots of a history: the mirrored files vary.
LogTrees ==
    {[p \in Paths |-> IF p = <<"a.txt">> THEN x
                      ELSE IF p = <<"layout", "a.txt">> THEN y ELSE NoFile] :
        x \in Contents \cup {NoFile}, y \in Contents \cup {NoFile}}

\* The history of the snapshots with these trees, the oldest first.
HistoryOf(trees) ==
    [i \in DOMAIN trees |-> [hash |-> i, tree |-> trees[i], restoredFrom |-> 0]]

\* Captures fill the empty store with a history of at most MaxLog snapshots;
\* git commits nothing without a change, so a snapshot differs from the one
\* before it.
ReadLog ==
    /\ gitLog = <<>>
    /\ last.op # "timeline"
    /\ \E k \in 1..MaxLog :
         \E trees \in [1..k -> LogTrees] :
            /\ \A i \in 2..k : trees[i] # trees[i - 1]
            /\ gitLog' = HistoryOf(trees)
    /\ UNCHANGED <<timeline, diffFailures, engineVars, analysisVars, identityVars,
                   promptVars, totalsVars, moreVars>>

\* getCommitHistory, with the list it returns.
LoadTimeline ==
    /\ last.op # "timeline"
    /\ \E logThrows \in BOOLEAN, diffFails \in SUBSET WithOlder(gitLog) :
        \* an input that the run does not read takes one value
        /\ getCommitHistory(shadowRepo, gitLog, logThrows) # "listed" => diffFails = {}
        /\ ~validateRepositoryHealth(shadowRepo) => ~logThrows
        /\ last' = Step("timeline", getCommitHistory(shadowRepo, gitLog, logThrows))
        /\ timeline' = CommitInfos(shadowRepo, gitLog, logThrows, diffFails)
        /\ diffFailures' = diffFails
    /\ UNCHANGED <<workspace, shadowRepo, rootExists, commits, index, nextHash, tempPath, pc,
                   restoreHash, edits, faults, gitLog, analysisVars, identityVars,
                   promptVars, totalsVars, moreVars>>

(***************************************************************************)
(* ensureInitialized: the lazy initialisation that every command runs.     *)
(***************************************************************************)
\* The calls of initializeShadowRepo that can throw in a window with this
\* folder and this store directory: the import of simple-git, mkdirSync (run
\* for a missing directory), checkIsRepo, and git.init (run for a directory
\* that is no repository).
InitFaults(folder, store) ==
    {"none", "import"}
    \cup (IF folder /\ store = "missing" THEN {"mkdir"} ELSE {})
    \cup (IF folder THEN {"checkIsRepo"} ELSE {})
    \cup (IF folder /\ store # "repo" THEN {"init"} ELSE {})

\* The store directory after the mkdirSync of lines 175-177.
MadeDirectory(store) == IF store = "missing" THEN "empty" ELSE store

\* initializeShadowRepo(): shadowRepoPath is assigned once the folder is
\* known, git once the directory exists; every error is caught inside and
\* only shown.  error: the call that threw, "noFolder" for the error of
\* line 158, "none" for a run without an error.
lazyInitializeShadowRepo(folder, store, fault) ==
    IF fault = "import"
    THEN [gitSet |-> FALSE, pathSet |-> FALSE, store |-> store, error |-> "import"]
    ELSE IF ~folder
    THEN [gitSet |-> FALSE, pathSet |-> FALSE, store |-> store, error |-> "noFolder"]
    ELSE IF fault = "mkdir"
    THEN [gitSet |-> FALSE, pathSet |-> TRUE, store |-> store, error |-> "mkdir"]
    ELSE IF fault = "checkIsRepo"
    THEN [gitSet |-> TRUE, pathSet |-> TRUE, store |-> MadeDirectory(store),
          error |-> "checkIsRepo"]
    ELSE IF MadeDirectory(store) = "repo"
    THEN [gitSet |-> TRUE, pathSet |-> TRUE, store |-> "repo", error |-> "none"]
    ELSE IF fault = "init"
    THEN [gitSet |-> TRUE, pathSet |-> TRUE, store |-> "empty", error |-> "init"]
    ELSE [gitSet |-> TRUE, pathSet |-> TRUE, store |-> "repo", error |-> "none"]

\* ensureInitialized(): nothing when the flag is set; else
\* initializeShadowRepo and initializeOpenAI, neither of which throws, and
\* then the flag.
ensureInitialized(done, git, path, folder, store, fault) ==
    IF done
    THEN [isInitialized |-> TRUE, gitSet |-> git, pathSet |-> path, store |-> store,
          error |-> "none"]
    ELSE LET r == lazyInitializeShadowRepo(folder, store, fault)
         IN  [isInitialized |-> TRUE, gitSet |-> r.gitSet, pathSet |-> r.pathSet,
              store |-> r.store, error |-> r.error]

\* A command of the window (saveSnapshot, showTimeline, repairRepository
\* after its confirmation): ensureInitialized first.  What the command does
\* after it leaves the flag, the handle and the path alone and keeps a
\* repository a repository.
RunCommand ==
    /\ commandsRun < MaxCommands
    /\ \E fault \in (IF isInitialized THEN {"none"} ELSE InitFaults(folderOpen, storeState)) :
         LET r == ensureInitialized(isInitialized, gitSet, pathSet, folderOpen,
                                    storeState, fault)
         IN  /\ isInitialized' = r.isInitialized
             /\ gitSet' = r.gitSet
             /\ pathSet' = r.pathSet
             /\ storeState' = r.store
             /\ initError' = r.error
    /\ commandsRun' = commandsRun + 1
    /\ UNCHANGED <<folderOpen, engineVars, analysisVars, identityVars, promptVars,
                   totalsVars, timelineVars, overlapVars, mirrorVars>>

\* The window is reloaded, with or without a folder: the module is loaded
\* again with its initial values.
ReloadWindow ==
    /\ commandsRun < MaxCommands
    /\ isInitialized' = FALSE
    /\ gitSet' = FALSE
    /\ pathSet' = FALSE
    /\ initError' = "none"
    /\ folderOpen' \in BOOLEAN
    /\ commandsRun' = commandsRun + 1
    /\ UNCHANGED <<storeState, engineVars, analysisVars, identityVars, promptVars,
                   totalsVars, timelineVars, overlapVars, mirrorVars>>

(***************************************************************************)
(* restoreSnapshot invocations that overlap: the timeline starts a restore *)
(* for every 'restore' message and does not await it.                      *)
(***************************************************************************)
\* What the other variables keep while an invocation moves.
restUnchanged ==
    UNCHANGED <<engineVars, analysisVars, identityVars, promptVars, totalsVars,
                timelineVars, initVars, mirrorVars>>

\* Date.now() advances by a millisecond.
Tick ==
    /\ clock < MaxClock
    /\ clock' = clock + 1
    /\ UNCHANGED <<restorePc, restoreTemp, restoreResult, tempDirs>>
    /\ restUnchanged

\* The message 'restore' of the webview: restoreSnapshot(message.hash) runs
\* up to its await of the confirmation.
RestoreMessage(i) ==
    /\ restorePc[i] = "idle"
    /\ restorePc' = [restorePc EXCEPT ![i] = "confirm"]
    /\ UNCHANGED <<clock, restoreTemp, restoreResult, tempDirs>>
    /\ restUnchanged

\* The directory after fs.mkdirSync(tempPath, { recursive: true }): an
\* existing directory is kept as it is.
MkdirTemp(dir) == IF dir = "absent" THEN "empty" ELSE dir

\* The confirmation is answered.  With 'Yes' the invocation computes
\* tempPath from Date.now(), creates the directory and awaits the clone.
ConfirmRestore(i) ==
    /\ restorePc[i] = "confirm"
    /\ \E yes \in BOOLEAN :
         IF yes
         THEN /\ restorePc' = [restorePc EXCEPT ![i] = "clone"]
              /\ restoreTemp' = [restoreTemp EXCEPT ![i] = clock]
              /\ tempDirs' = [tempDirs EXCEPT ![clock] = MkdirTemp(@)]
              /\ UNCHANGED restoreResult
         ELSE /\ restorePc' = [restorePc EXCEPT ![i] = "idle"]
              /\ restoreResult' = [restoreResult EXCEPT ![i] = "declined"]
              /\ UNCHANGED <<restoreTemp, tempDirs>>
    /\ UNCHANGED clock
    /\ restUnchanged

\* tempGit.clone(shadowRepoPath, tempPath) returns.  git clones into a
\* directory that is absent or empty and refuses one with content; the
\* refusal reaches the catch block, which removes tempPath.
CloneReturns(i) ==
    /\ restorePc[i] = "clone"
    /\ IF tempDirs[restoreTemp[i]] # "cloned"
       THEN /\ tempDirs' = [tempDirs EXCEPT ![restoreTemp[i]] = "cloned"]
            /\ restorePc' = [restorePc EXCEPT ![i] = "copy"]
            /\ UNCHANGED <<restoreTemp, restoreResult>>
       ELSE /\ tempDirs' = [tempDirs EXCEPT ![restoreTemp[i]] = "absent"]
            /\ restorePc' = [restorePc EXCEPT ![i] = "idle"]
            /\ restoreTemp' = [restoreTemp EXCEPT ![i] = NoName]
            /\ restoreResult' = [restoreResult EXCEPT ![i] = "failed"]
    /\ UNCHANGED clock
    /\ restUnchanged

\* The rest of the try block: checkout, cleanWorkspace,
\* copySnapshotToWorkspace, synchronizeShadowRepo and the removal of
\* tempPath; without the clone in tempPath a step throws and the catch
\* block runs.  Either way tempPath is absent afterwards.
RestoreCompletes(i) ==
    /\ restorePc[i] = "copy"
    /\ restoreResult' = [restoreResult EXCEPT ![i] =
            IF tempDirs[restoreTemp[i]] = "cloned" THEN "restored" ELSE "failed"]
    /\ tempDirs' = [tempDirs EXCEPT ![restoreTemp[i]] = "absent"]
    /\ restorePc' = [restorePc EXCEPT ![i] = "idle"]
    /\ restoreTemp' = [restoreTemp EXCEPT ![i] = NoName]
    /\ UNCHANGED clock
    /\ restUnchanged

(***************************************************************************)
(* copyWorkspaceFiles, one copyRecursive call at a time, on the file       *)
(* system of the home directory: the store of a workspace lies in          *)
(* ~/.vibetrail, which a workspace that is the home directory contains.    *)
(***************************************************************************)
mirrorUnchanged ==
    UNCHANGED <<engineVars, analysisVars, identityVars, promptVars, totalsVars,
                timelineVars, initVars, overlapVars>>

\* The order in which fs.readdirSync lists names.
ListingOrder ==
    <<".git", ".vibetrail", "a.txt", "root_L3Jvb3Q_", "src", "src_L3Jvb3Qvc3Jj">>

\* fs.readdirSync(dir) on the file system: the names of its entries.
Listing(dirs, files, dir) ==
    SelectSeq(ListingOrder, LAMBDA n : (dir \o <<n>>) \in dirs \cup files)

\* The copyRecursive calls of a forEach over the listing of src.
CallsFor(names, src, dest) ==
    [k \in DOMAIN names |-> <<src \o <<names[k]>>, dest \o <<names[k]>>>>]

\* The files the user keeps in the two workspaces.
UserFiles == {<<"a.txt">>, <<"src", "a.txt">>}

\* The user creates or deletes a file while no mirror runs.
WriteFile ==
    /\ mirrorPc # "copying"
    /\ \E f \in UserFiles :
         fsFiles' = IF f \in fsFiles THEN fsFiles \ {f} ELSE fsFiles \cup {f}
    /\ UNCHANGED <<fsDirs, mirrorPc, mirrorStack, mirrorSteps, startEntries>>
    /\ mirrorUnchanged

\* copyWorkspaceFiles(source, destination) up to its copy loop: the safety
\* check, the cleanup of the destination but .git, and the listing of the
\* source.
BeginMirror ==
    /\ mirrorPc # "copying"
    /\ \E w \in MirrorWorkspaces :
         LET dest == StoreOf(w)
             stale(p) == IsUnder(dest, p) /\ p[Len(dest) + 1] # ".git"
             dirs == {p \in fsDirs : ~stale(p)}
             files == {p \in fsFiles : ~stale(p)}
         IN  /\ (dest \o <<".git">>) \in fsDirs
             /\ fsDirs' = dirs
             /\ fsFiles' = files
             /\ mirrorStack' = CallsFor(Listing(dirs, files, w), w, dest)
             /\ startEntries' = Cardinality({p \in fsDirs \cup fsFiles : IsUnder(w, p)})
    /\ mirrorPc' = "copying"
    /\ mirrorSteps' = 0
    /\ mirrorUnchanged

\* One call copyRecursive(src, dest): an ignored name returns; a directory
\* is created in the destination and its listing, read after that, is
\* walked; a file is copied.  A destination path beyond the limit of the
\* platform makes mkdirSync or copyFileSync throw (ENAMETOOLONG), which ends
\* the mirror.
CopyRecursiveStep ==
    /\ mirrorPc = "copying"
    /\ mirrorStack # <<>>
    /\ LET src == Head(mirrorStack)[1]
           dest == Head(mirrorStack)[2]
           rest == Tail(mirrorStack)
       IN  IF src \in fsDirs
           THEN IF basename(src) \in SkippedDirNames
                THEN /\ mirrorStack' = rest
                     /\ UNCHANGED <<fsDirs, fsFiles, mirrorPc>>
                ELSE IF Len(dest) > MaxPathLen
                THEN /\ mirrorPc' = "error"
                     /\ mirrorStack' = <<>>
                     /\ UNCHANGED <<fsDirs, fsFiles>>
                ELSE /\ fsDirs' = fsDirs \cup {dest}
                     /\ mirrorStack' =
                            CallsFor(Listing(fsDirs \cup {dest}, fsFiles, src), src, dest)
                            \o rest
                     /\ UNCHANGED <<fsFiles, mirrorPc>>
           ELSE IF basename(src) \in SkippedFileNames
                THEN /\ mirrorStack' = rest
                     /\ UNCHANGED <<fsDirs, fsFiles, mirrorPc>>
                ELSE IF Len(dest) > MaxPathLen
                THEN /\ mirrorPc' = "error"
                     /\ mirrorStack' = <<>>
                     /\ UNCHANGED <<fsDirs, fsFiles>>
                ELSE /\ fsFiles' = fsFiles \cup {dest}
                     /\ mirrorStack' = rest
                     /\ UNCHANGED <<fsDirs, mirrorPc>>
    /\ mirrorSteps' = mirrorSteps + 1
    /\ UNCHANGED startEntries
    /\ mirrorUnchanged

\* The copy loop has made its last call: copyWorkspaceFiles returns.
MirrorReturns ==
    /\ mirrorPc = "copying"
    /\ mirrorStack = <<>>
    /\ mirrorPc' = "done"
    /\ UNCHANGED <<fsDirs, fsFiles, mirrorStack, mirrorSteps, startEntries>>
    /\ mirrorUnchanged

Next ==
    \/ Edit
    \/ SaveSnapshot
    \/ RestoreBegin
    \/ RestoreFinish
    \/ RepairRepository
    \/ ExternalDeleteGit
    \/ ExternalCorruptGit
    \/ ExternalDeleteRoot

Spec == Init /\ [][Next]_vars

\* The change analysis alone.
NextAnalysis ==
    \/ ReadDiffFile
    \/ AnalyzeFile

SpecAnalysis == Init /\ [][NextAnalysis]_vars

\* The views over a store that captures fill and that is damaged from outside.
NextViews ==
    \/ Edit
    \/ SaveSnapshot
    \/ ExternalDeleteGit
    \/ ExternalCorruptGit
    \/ ExternalDeleteRoot
    \/ GetCommitHistory
    \/ ViewDiff
    \/ ViewFileDiff
    \/ ReadSnapshotFile

SpecViews == Init /\ [][NextViews]_vars

\* The repair of a store that captures fill and that is damaged from outside.
NextRepair ==
    \/ Edit
    \/ SaveSnapshot
    \/ ExternalDeleteGit
    \/ ExternalCorruptGit
    \/ ExternalDeleteRoot
    \/ RepairDamagedRepository

SpecRepair == Init /\ [][NextRepair]_vars

\* The project identity alone.
NextIdentity ==
    \/ OpenWorkspaces
    \/ InitializeShadowRepos

SpecIdentity == Init /\ [][NextIdentity]_vars

\* The prompt on its way through the commit message.
NextPrompt ==
    \/ TypePrompt
    \/ BuildMessage
    \/ ParseMessage

SpecPrompt == Init /\ [][NextPrompt]_vars

\* The change statistics alone.
NextTotals ==
    \/ ReadDiffSummary
    \/ AnalyzeCommit

SpecTotals == Init /\ [][NextTotals]_vars

\* The timeline of a history, over a store that is healthy or damaged.
NextTimeline ==
    \/ ReadLog
    \/ ExternalCorruptGit
    \/ LoadTimeline

SpecTimeline == Init /\ [][NextTimeline]_vars

\* The commands and reloads of a window, from a module that is not yet
\* initialised.
NextInit ==
    \/ RunCommand
    \/ ReloadWindow

SpecInit == Init /\ [][NextInit]_vars

\* Restores that the timeline starts while others run.
NextOverlap ==
    \/ Tick
    \/ \E i \in Invocations : RestoreMessage(i)
    \/ \E i \in Invocations : ConfirmRestore(i)
    \/ \E i \in Invocations : CloneReturns(i)
    \/ \E i \in Invocations : RestoreCompletes(i)

SpecOverlap == Init /\ [][NextOverlap]_vars

\* Mirrors of the two workspaces, step by step.
NextMirror ==
    \/ WriteFile
    \/ BeginMirror
    \/ CopyRecursiveStep
    \/ MirrorReturns

SpecMirror == Init /\ [][NextMirror]_vars

(***************************************************************************)
(* The properties.                                                         *)
(***************************************************************************)
\* The ignore policy of the mirror on a path: a directory on the path is
\* named like a rule, or the file's name contains a rule.
RuleSet == {ignorePatterns[i] : i \in DOMAIN ignorePatterns}
MatchedByRules(p) ==
    \/ \E k \in 1..(Len(p) - 1) : p[k] \in RuleSet
    \/ \E r \in RuleSet : StringIncludes(basename(p), r)

\* The ignore-filtered copy of a tree.
FilteredCopy(t) == [p \in Paths |-> IF MatchedByRules(p) THEN NoFile ELSE t[p]]

IsPrefix(a, b) == Len(a) <= Len(b) /\ \A i \in DOMAIN a : a[i] = b[i]

\* The step is one of a capture, or of a restore.
CaptureStep == last'.op = "capture"
RestoreStep == last'.op \in {"restoreBegin", "restore"}

\* The last step was a capture, or a restore, whose mirror ran to its end.
MirrorCompleted ==
    \/ last.op = "capture" /\ last.outcome \in {"saved", "nothing", "commitError"}
    \/ last.op = "restore" /\ last.outcome \in {"committed", "nothing", "gitFailed"}

\* C1 (append-only history): a step of a capture or of a restore keeps every
\* commit of the history, with its hash and tree and in the same order; it
\* can only append.
C1_AppendOnlyHistory ==
    [][CaptureStep \/ RestoreStep => IsPrefix(commits, commits')]_vars

\* A restore appended its commit to a history that held commits already.
C1_Witness ==
    last.op = "restore" /\ last.outcome = "committed" /\ Len(commits) >= 2

\* C2 (restore round-trip), as the specification states it: when a restore
\* of snapshot S ends without an error, on a store whose metadata is intact
\* and with no fault, the tree of the head commit equals the tree of S.
C2_RestoreRoundTrip ==
    [][(/\ pc = "cloned"
        /\ last'.op = "restore"
        /\ last'.outcome \in {"committed", "nothing"}
        /\ faults' = faults
        /\ rootExists
        /\ StatusOk(shadowRepo))
       => diffSummary(HeadTree(commits'), TreeOf(commits, restoreHash)) = {}]_vars

\* C3 (ignore invariant on the store): the store holds, outside .git, no
\* file whose path the ignore rules match (a directory named like a rule,
\* or a file name that contains one).
C3_StoreHoldsNoIgnoredFile ==
    \A p \in Present(NoGit(shadowRepo)) : ~MatchedByRules(p)

\* A capture saved a snapshot of a workspace that has ignored files at the
\* top and below.
C3_Witness ==
    /\ last.op = "capture"
    /\ last.outcome = "saved"
    /\ workspace[<<".env">>] # NoFile
    /\ workspace[<<"src", "out", "a.txt">>] # NoFile
    /\ Present(NoGit(shadowRepo)) # {}

\* C4 (ignore invariant on the workspace), as the specification states it:
\* after a restore that ended without an error the workspace has no file
\* whose path the ignore rules match.
C4_WorkspaceHoldsNoIgnoredFile ==
    last.op = "restore" /\ last.outcome \in {"committed", "nothing"}
        => \A p \in Present(workspace) : ~MatchedByRules(p)

\* C4, amended: the second part of a restore brings no ignored file into the
\* workspace: every file there afterwards whose path the ignore rules match
\* was there before, with the same content.
C4_RestoreBringsNoIgnoredFile ==
    [][pc = "cloned" /\ last'.op = "restore"
       => \A p \in Present(workspace') : MatchedByRules(p) => workspace'[p] = workspace[p]]_vars

\* A restore ended and the workspace still has its ignored files.
C4_Witness ==
    /\ last.op = "restore"
    /\ last.outcome \in {"committed", "nothing"}
    /\ workspace[<<".env">>] # NoFile
    /\ workspace[GitHead] # NoFile

C6_ChangeClassification ==
    fileDetail # NoDetail =>
        LET ins == IF "insertions" \in DOMAIN diffFile THEN diffFile.insertions ELSE 0
            del == IF "deletions" \in DOMAIN diffFile THEN diffFile.deletions ELSE 0
        IN  /\ fileDetail.status = "added" <=> (ins > 0 /\ del = 0)
            /\ fileDetail.status = "deleted" <=> (ins = 0 /\ del > 0)
            /\ fileDetail.status = "modified" <=> ~(ins > 0 /\ del = 0) /\ ~(ins = 0 /\ del > 0)
            /\ fileDetail.linesAdded = ins
            /\ fileDetail.linesRemoved = del

\* An entry without counts was classified.
C6_Witness ==
    /\ fileDetail # NoDetail
    /\ "insertions" \notin DOMAIN diffFile
    /\ fileDetail.status = "modified"

\* C7 (repair after the loss of .git): a repair of a store whose directory
\* is there and whose .git is not, with git.init succeeding, leaves a store
\* that passes the health check, with every other file of the store and the
\* workspace as they were.
C7_RepairAfterGitLoss ==
    [][(/\ last'.op = "repair"
        /\ rootExists
        /\ ~existsSync(shadowRepo, <<".git">>)
        /\ faults' = faults)
       => /\ validateRepositoryHealth(shadowRepo')
          /\ StatusOk(shadowRepo')
          /\ NoGit(shadowRepo') = NoGit(shadowRepo)
          /\ workspace' = workspace]_vars

\* A repair re-initialised a store that holds mirrored files.
C7_Witness ==
    /\ last.op = "repair"
    /\ last.outcome = "noGit"
    /\ StatusOk(shadowRepo)
    /\ Present(NoGit(shadowRepo)) # {}

C9_MirrorSafetyCheck ==
    [][(/\ last'.op \in {"capture", "restore"}
        /\ rootExists
        /\ ~existsSync(shadowRepo, <<".git">>))
       => /\ last'.outcome \in {"mirrorError", "mirrorFailed"}
          /\ \A p \in Present(shadowRepo) : shadowRepo'[p] = shadowRepo[p]]_vars

\* C10 (metadata protection): no step of a capture or of a restore removes
\* or changes the store's .git, also when the workspace has a .git of its own.
C10_MetadataProtection ==
    [][CaptureStep \/ RestoreStep => shadowRepo'[GitHead] = shadowRepo[GitHead]]_vars

\* A capture mirrored a workspace that has its own .git into the store.
C10_Witness ==
    /\ last.op = "capture"
    /\ last.outcome = "saved"
    /\ workspace[GitHead] # NoFile
    /\ workspace[GitHead] # shadowRepo[GitHead]
    /\ shadowRepo[GitHead] = RepoOk

\* C11 (no partial snapshot): a capture whose mirror failed, at the safety
\* check or at a copy, stages nothing and commits nothing; a capture that
\* records a snapshot ended its mirror, and the snapshot is the mirrored tree.
C11_NoPartialSnapshot ==
    [][CaptureStep =>
         /\ last'.outcome = "mirrorError" => commits' = commits /\ index' = index
         /\ commits' # commits =>
               /\ last'.outcome = "saved"
               /\ HeadTree(commits') = NoGit(shadowRepo')]_vars

\* A capture stopped at a copy that threw, with the store partly mirrored and
\* no longer the tree of the head snapshot.
C11_Witness ==
    /\ last.op = "capture"
    /\ last.outcome = "mirrorError"
    /\ commits # <<>>
    /\ StatusOk(shadowRepo)
    /\ NoGit(shadowRepo) # HeadTree(commits)

\* C12 (restore failure before replacement): a restore that fails at the
\* temporary directory, at the clone or at the checkout ends with the
\* workspace as it was; a restore changes the workspace only after the clone
\* and the checkout were made.
C12_FailureBeforeReplacement ==
    [][RestoreStep =>
         /\ last'.op = "restoreBegin" => workspace' = workspace
         /\ last'.outcome = "failed" => pc' = "idle"
         /\ workspace' # workspace => pc = "cloned" /\ tempPath.exists]_vars

\* A restore failed before its clone was checked out, on a workspace with
\* files that the clean step removes.
C12_Witness ==
    /\ last.op = "restoreBegin"
    /\ last.outcome = "failed"
    /\ last.answer = "Yes"
    /\ \E p \in Present(workspace) : ~shouldIgnore(p[1])

\* C13 (temporary directory removed): whenever no restore is running, the
\* temporary directory of a restore does not exist, however the restore ended.
C13_TempRemoved ==
    pc = "idle" => ~tempPath.exists

\* A restore that had cloned failed at the copy into the workspace, and its
\* temporary directory is gone.
C13_Witness ==
    /\ last.op = "restore"
    /\ last.outcome = "copyFailed"
    /\ pc = "idle"
    /\ ~tempPath.exists

\* C17 (restore needs the confirmation): a restore to whose confirmation the
\* answer is not 'Yes' changes neither the workspace nor the store nor the
\* temporary directory, and only an answer 'Yes' starts a restore.
C17_RestoreNeedsConfirmation ==
    [][last'.op = "restoreBegin" =>
         /\ last'.answer # "Yes" =>
               UNCHANGED <<workspace, shadowRepo, rootExists, commits, index, tempPath, pc,
                           restoreHash>>
         /\ pc' = "cloned" => last'.answer = "Yes"]_vars

\* The confirmation of a restore was dismissed, with a snapshot to restore
\* that differs from the workspace.
C17_Witness ==
    /\ last.op = "restoreBegin"
    /\ last.answer = "dismissed"
    /\ commits # <<>>
    /\ \E i \in DOMAIN commits : commits[i].tree # FilteredCopy(workspace)

\* C14 (project identity), as the specification states it: the same
\* workspace path gives the same shadowRepoPath, and two distinct workspace
\* paths give distinct ones.
C14_ProjectIdentity ==
    repoPaths # NoPaths =>
        /\ openPaths[1] = openPaths[2] => repoPaths[1] = repoPaths[2]
        /\ openPaths[1] # openPaths[2] => repoPaths[1] # repoPaths[2]

\* The paths of the workspace inside a .git, at any depth.
InsideGit(p) == \E k \in DOMAIN p : p[k] = ".git"

\* C15 (isolation from the project's own version control), as the
\* specification states it: no step of a capture, of a restore or of a
\* repair creates, changes or deletes a file inside a .git of the
\* workspace, at any depth.
C15_WorkspaceGitUntouched ==
    [][CaptureStep \/ RestoreStep \/ last'.op = "repair" =>
         \A p \in Paths : InsideGit(p) => workspace'[p] = workspace[p]]_vars

\* C16 (guardian first), as the specification states it: a capture or a
\* restore that starts on a store which fails the health check goes on only
\* after the user confirmed the health warning; a restore has no such
\* warning to confirm, so it does not go on, and a capture that goes on is
\* blocked before it changes the store.
C16_GuardianFirst ==
    [][(CaptureStep \/ last'.op = "restoreBegin") /\ ~validateRepositoryHealth(shadowRepo) =>
         /\ pc' = "idle"
         /\ UNCHANGED <<workspace, shadowRepo, commits, index>>]_vars

\* C18 (repair escalation), as the specification states it: a repair whose
\* verification fails goes to the last resort, which deletes .git and
\* initialises anew; so a repair in which no git.init throws never reports a
\* failure and leaves a store that passes the health check.
C18_RepairEscalation ==
    [][last'.op = "repair" /\ faults' = faults =>
         /\ last'.outcome \notin {"notARepo", "statusFailed", "reinitFailed"}
         /\ validateRepositoryHealth(shadowRepo')]_vars

\* C19 (capture then restore is the identity), as the specification states
\* it: with no edit and no fault so far, the workspace is the one every
\* snapshot was captured from, and the second part of a restore that ends
\* well leaves the workspace with exactly the files and contents it had,
\* ignored ones included.
C19_CaptureThenRestoreIdentity ==
    [][(/\ pc = "cloned"
        /\ last'.op = "restore"
        /\ last'.outcome \in {"committed", "nothing"}
        /\ edits = 0
        /\ faults' = 0)
       => workspace' = workspace]_vars

\* The content of a tree that no ignore decision of a restore leaves out:
\* the files that the mirror copies and the clean step removes.
RestoredContent(t) ==
    [p \in Paths |-> IF MatchedByRules(p) \/ shouldIgnore(p[1]) THEN NoFile ELSE t[p]]

\* C20 (restore is all-or-nothing on the workspace), as the specification
\* states it: when the second part of a restore ends, well or with an error,
\* the non-ignored content of the workspace is what it was before or is the
\* content of the snapshot.
C20_RestoreAllOrNothing ==
    [][pc = "cloned" /\ last'.op = "restore" =>
         \/ RestoredContent(workspace') = RestoredContent(workspace)
         \/ RestoredContent(workspace') = RestoredContent(tempPath.tree)]_vars

\* The step is one of a view that the user did not answer with a repair.
ViewStep ==
    /\ last'.op \in {"history", "viewDiff", "viewFileDiff", "readFile"}
    /\ last'.answer # "Repair Repository"

\* C21 (read-only operations keep the history), as the specification states
\* it: a step of the timeline's history, of a diff view in which the user
\* did not choose the repair, or of the provider keeps every commit of the
\* history and does not delete the store's .git, also when a call fails.
C21_ViewsKeepHistory ==
    [][ViewStep =>
         /\ IsPrefix(commits, commits')
         /\ existsSync(shadowRepo, <<".git">>) => existsSync(shadowRepo', <<".git">>)]_vars

\* C22 (checkout isolation), as the specification states it: the first part
\* of a restore, whether the clone and the checkout succeed or fail, changes
\* neither the workspace nor the store, its history and its mirrored files.
C22_CheckoutIsolation ==
    [][last'.op = "restoreBegin" =>
         /\ workspace' = workspace
         /\ commits' = commits
         /\ shadowRepo' = shadowRepo]_vars

\* C22, amended: the first part of a restore changes neither the workspace
\* nor the history nor the store's .git; when the clone and the checkout
\* succeed the mirrored files of the store stay too, and when they fail the
\* mirrored files stay or are, by the recovery, those of the head snapshot.
C22_CheckoutIsolationUpToRecovery ==
    [][last'.op = "restoreBegin" =>
         /\ workspace' = workspace
         /\ commits' = commits
         /\ shadowRepo'[GitHead] = shadowRepo[GitHead]
         /\ last'.outcome # "failed" => shadowRepo' = shadowRepo
         /\ last'.outcome = "failed" =>
               \/ shadowRepo' = shadowRepo
               \/ NoGit(shadowRepo') = HeadTree(commits)]_vars

\* A restore failed at its clone or checkout on a store with a snapshot, and
\* the store's mirrored files are those of the head snapshot, unlike the
\* workspace's.
C22_Witness ==
    /\ last.op = "restoreBegin"
    /\ last.outcome = "failed"
    /\ commits # <<>>
    /\ StatusOk(shadowRepo)
    /\ NoGit(shadowRepo) = HeadTree(commits)
    /\ FilteredCopy(workspace) # HeadTree(commits)

C24_ResyncNotFatal ==
    [][pc = "cloned" /\ last'.op = "restore" =>
         /\ last'.error # "-" => last'.outcome = "copyFailed"
         /\ last'.outcome \in {"mirrorFailed", "gitFailed", "nothing"} =>
               last'.error = "-" /\ commits' = commits
         /\ last'.outcome = "committed" =>
               last'.error = "-" /\ Len(commits') = Len(commits) + 1]_vars

\* A restore left the workspace with the content of a snapshot, its
\* resynchronisation failed at git, so that the store's files are not those
\* of the head snapshot, and it ended as a success.
C24_Witness ==
    /\ last.op = "restore"
    /\ last.outcome = "gitFailed"
    /\ last.error = "-"
    /\ commits # <<>>
    /\ \E i \in DOMAIN commits : RestoredContent(workspace) = RestoredContent(commits[i].tree)
    /\ NoGit(shadowRepo) # HeadTree(commits)

\* C25 (repair discards drift only when there is history), as the
\* specification states it: a repair of a store without a commit runs
\* neither reset nor clean, so it leaves every mirrored file of the store in
\* place.
C25_RepairKeepsFilesWithoutHistory ==
    [][last'.op = "repair" /\ commits = <<>> =>
         \A p \in Present(NoGit(shadowRepo)) : shadowRepo'[p] = shadowRepo[p]]_vars

\* The paths of repairGitRepository that return true.
RepairSucceeded == {"noRoot", "noGit", "lastResort", "verified"}

\* C26 (repair is idempotent), as the specification states it: a repair that
\* follows a repair which left a store that passes the health check, with
\* nothing in between and no git.init that throws, leaves the store as the
\* first one left it (its directory, history, mirrored files and .git) and
\* returns true if the first one did.
C26_RepairIdempotent ==
    [][(/\ last.op = "repair"
        /\ last'.op = "repair"
        /\ validateRepositoryHealth(shadowRepo)
        /\ faults' = faults)
       => /\ shadowRepo' = shadowRepo
          /\ commits' = commits
          /\ rootExists' = rootExists
          /\ last.outcome \in RepairSucceeded => last'.outcome \in RepairSucceeded]_vars

\* C27 (repair leaves the workspace alone): no step of a repair, on any of
\* its paths, creates, changes or deletes a file of the workspace.
C27_RepairLeavesWorkspace ==
    [][last'.op = "repair" => workspace' = workspace]_vars

\* A repair went to the last resort, which deleted the store's .git and its
\* history, and the workspace holds files that no snapshot holds any more.
C27_Witness ==
    /\ last.op = "repair"
    /\ last.outcome = "lastResort"
    /\ commits = <<>>
    /\ nextHash > 1
    /\ Present(FilteredCopy(workspace)) # {}
    /\ Present(workspace) \ Present(FilteredCopy(workspace)) # {}

\* C28 (the success of a repair is truthful), as the specification states
\* it: after a repair that returned true, on any of its paths, the store's
\* directory exists, it has a .git, and git.status succeeds.
C28_RepairSuccessTruthful ==
    [][last'.op = "repair" /\ last'.outcome \in RepairSucceeded =>
         /\ rootExists'
         /\ existsSync(shadowRepo', <<".git">>)
         /\ StatusOk(shadowRepo')]_vars

\* The decision of copyWorkspaceFiles's copyRecursive on an entry of a name
\* and a kind: a directory by Array.includes, a file by String.includes.
CaptureIgnores(name, isDir) ==
    IF isDir THEN name \in SkippedDirNames ELSE name \in SkippedFileNames

\* The decision of copyWorkspaceToShadowRepo's copyRecursive on an entry.
ResyncIgnores(name, isDir) ==
    IF isDir THEN name \in SyncSkippedDirNames ELSE name \in SyncSkippedFileNames

\* The entries of a tree at every depth: the files, and the directories
\* above them.
EntriesOf(t) ==
    UNION {{SubSeq(q, 1, k) : k \in 1..Len(q)} : q \in Present(t)}

\* C29 (one ignore decision everywhere), as the specification states it:
\* on every entry of the workspace the capture mirror and the resync mirror
\* decide alike, and on every entry that the clean step of a restore tests
\* (the top-level ones) the clean step keeps it exactly when the mirrors
\* exclude it.
C29_OneIgnoreDecision ==
    /\ \A e \in EntriesOf(workspace) :
           CaptureIgnores(basename(e), isDirectory(workspace, e))
               <=> ResyncIgnores(basename(e), isDirectory(workspace, e))
    /\ \A item \in TopEntries(workspace) :
           shouldIgnore(item)
               <=> CaptureIgnores(item, isDirectory(workspace, <<item>>))

\* The message saveSnapshot shows at its end: the information message after
\* a git.commit that returned, with a new commit or without one, and the
\* error message of its catch after a call that threw.
saveSnapshotMessage(outcome) ==
    CASE outcome \in {"saved", "nothing"}             -> "Snapshot saved"
      [] outcome \in {"mirrorError", "commitError"}   -> "Failed to save snapshot"
      [] OTHER                                        -> "-"

\* C30 (a no-op commit is not a failure of capture), as the specification
\* states it: after a capture whose commit had nothing to commit, whether
\* git.commit returned without a commit or threw, the capture is reported
\* as no changes since the last snapshot, not as failed and not as saved.
C30_NoOpCaptureReported ==
    (/\ last.op = "capture"
     /\ last.outcome \in {"nothing", "commitError"}
     /\ NothingToCommit(commits, index))
        => saveSnapshotMessage(last.outcome) = "No changes since last snapshot"

\* C33 (an aborted capture has no side effects): a capture that ends at the
\* health warning without 'Proceed Anyway', or at a cancelled prompt input,
\* changes neither the store's tree, nor its staged tree, nor the snapshot
\* list, nor the workspace.
C33_AbortedCaptureNoEffect ==
    [][last'.op = "capture" /\ last'.outcome = "cancelled" =>
         /\ shadowRepo' = shadowRepo
         /\ index' = index
         /\ commits' = commits
         /\ workspace' = workspace]_vars

\* A capture was aborted while the workspace had files that the store's
\* mirrored tree does not have.
C33_Witness ==
    /\ last.op = "capture"
    /\ last.outcome = "cancelled"
    /\ nextHash > 1
    /\ FilteredCopy(workspace) # NoGit(shadowRepo)

\* The files a store holds outside .git that a mirror of the tree source did
\* not copy, and the top-level entries they lie in.
StaleFiles(repo, copied) == {p \in Present(NoGit(repo)) : p \notin copied}
StaleEntries(repo, copied) == {p[1] : p \in StaleFiles(repo, copied)}

\* C34 (best-effort cleanup in a mirror): when the removal of one entry of the
\* store throws during the cleanup of a mirror, of a capture or of the
\* resynchronisation of a restore, the mirror does not abort: the copy phase
\* runs, so every file the mirror copies is in the store with the content
\* of the workspace, and every other entry was removed, so the files left
\* over lie in one entry and are as they were.
C34_BestEffortCleanup ==
    [][last'.warned =>
         LET copied == IF last'.op = "capture" THEN WorkspaceFilesCopied(workspace')
                       ELSE ShadowFilesCopied(workspace')
         IN  /\ last'.outcome \notin {"mirrorError", "mirrorFailed"}
             /\ \A p \in copied : shadowRepo'[p] = workspace'[p]
             /\ Cardinality(StaleEntries(shadowRepo', copied)) <= 1
             /\ \A p \in StaleFiles(shadowRepo', copied) : shadowRepo'[p] = shadowRepo[p]]_vars

\* A capture whose cleanup could not remove one of two entries of the store
\* saved a snapshot.
C34_Witness ==
    /\ last.op = "capture"
    /\ last.warned
    /\ last.outcome = "saved"
    /\ Cardinality(TopEntries(NoGit(shadowRepo))) >= 2

\* The resynchronisation of a restore could not remove an entry of the store.
C34_WitnessResync ==
    /\ last.op = "restore"
    /\ last.warned
    /\ Present(NoGit(shadowRepo)) # {}

\* C36 (a capture does not change the workspace): on every path of a
\* capture, aborted, saved, nothing to commit, mirror error or commit error,
\* the workspace is the same after the capture as before it.
C36_CaptureLeavesWorkspace ==
    [][CaptureStep => workspace' = workspace]_vars

\* A capture ended with the error of a copy that threw after a part of the
\* files was copied, and the workspace still has files the store lacks.
C36_Witness ==
    /\ last.op = "capture"
    /\ last.outcome = "mirrorError"
    /\ faults > 0
    /\ \E p \in WorkspaceFilesCopied(workspace) : shadowRepo[p] = NoFile

\* C31 (the prompt's round trip through the commit message), as the
\* specification states it: for a prompt that does not contain the
\* delimiter, the message is the trimmed prompt, the delimiter and the
\* timestamp, and the timeline parses back the trimmed prompt; for an empty
\* or blank prompt the message is 'Snapshot @ ' and the timestamp, and the
\* parsed prompt is empty.
C31_PromptRoundTrip ==
    (parsedPrompt # NoText /\ ~TextIncludes(prompt, Delimiter)) =>
        /\ commitMessage = IF Trim(prompt) = <<>> THEN SnapshotAt \o Timestamp
                           ELSE Trim(prompt) \o Delimiter \o Timestamp
        /\ parsedPrompt = Trim(prompt)

\* The lines of the entries of a snapshot's statistics.
LinesAddedOf(detail) == detail.linesAdded
LinesRemovedOf(detail) == detail.linesRemoved

\* C32 (change totals), as the specification states it: filesChanged is the
\* number of file entries, linesAdded and linesRemoved are the sums of the
\* entries' linesAdded and linesRemoved, and for the first snapshot all
\* three are zero and there are no entries.
C32_ChangeTotals ==
    commitInfo # NoInfo =>
        /\ commitInfo.filesChanged = Len(commitInfo.fileDetails)
        /\ commitInfo.linesAdded = SumSeq([i \in DOMAIN commitInfo.fileDetails |-> LinesAddedOf(commitInfo.fileDetails[i])])
        /\ commitInfo.linesRemoved = SumSeq([i \in DOMAIN commitInfo.fileDetails |-> LinesRemovedOf(commitInfo.fileDetails[i])])
        /\ ~diffCall.previousCommit =>
               /\ commitInfo.filesChanged = 0
               /\ commitInfo.linesAdded = 0
               /\ commitInfo.linesRemoved = 0
               /\ commitInfo.fileDetails = <<>>

\* C37 (timeline completeness): a getCommitHistory on a healthy store whose
\* log is read returns one entry per snapshot, the most recent first; the
\* statistics of an entry are those of the diff between the next older
\* snapshot and it, and they are zero for the oldest snapshot and for a
\* snapshot whose diffSummary threw, whatever happened to the others.
C37_TimelineComplete ==
    (last.op = "timeline" /\ validateRepositoryHealth(shadowRepo)
     /\ last.outcome # "logFailed") =>
        /\ Len(timeline) = Len(gitLog)
        /\ \A i \in DOMAIN timeline :
             LET n == Len(gitLog) - i + 1
                 older == IF n > 1 THEN gitLog[n - 1].tree ELSE EmptyTree
             IN  /\ timeline[i].hash = gitLog[n].hash
                 /\ timeline[i].filesChanged = Cardinality(timeline[i].files)
                 /\ timeline[i].files =
                        IF n = 1 \/ gitLog[n].hash \in diffFailures THEN {}
                        ELSE {p \in Paths : NoGit(older)[p] # NoGit(gitLog[n].tree)[p]}

\* The timeline of three snapshots was loaded; the diffSummary of the
\* middle one threw, and the newest one has its changed files.
C37_Witness ==
    /\ last.op = "timeline"
    /\ Len(timeline) = 3
    /\ diffFailures = {timeline[2].hash}
    /\ timeline[1].filesChanged = 2
    /\ timeline[2].filesChanged = 0

\* C35 (initialization is retried after failure): an initialisation that
\* failed leaves the engine not marked initialized, so that the next command
\* runs it again; whenever isInitialized is true, the store handle and the
\* store path are set and the store is a repository.
C35_InitializationRetried ==
    /\ initError # "none" => ~isInitialized
    /\ isInitialized => (gitSet /\ pathSet /\ storeState = "repo")

\* C38 (temporary directories are private to one restore): two restore
\* invocations that overlap never have the same temporary directory, so
\* none clones into, reads from or removes the directory of another.
C38_TempDirsPrivate ==
    \A i \in Invocations, j \in Invocations :
        (i # j /\ restorePc[i] \in {"clone", "copy"} /\ restorePc[j] \in {"clone", "copy"})
            => restoreTemp[i] # restoreTemp[j]

====
